---- MODULE Spec2Model ----
(***************************************************************************)
(* A model of the autocrap control interpretation engine                   *)
(* (src/src/autocrap/interpreter.rs), of the mapping expander              *)
(* (src/src/autocrap/config.rs) and of the reader and writer loops of the  *)
(* program (src/src/main.rs).                                              *)
(*                                                                         *)
(* Option<T> is a sequence of length at most one: None is <<>>, Some(x)    *)
(* is <<x>>.  A u8 is an integer in 0..255.  An f32 is modelled as an      *)
(* exact rational [num, den]; the values the code builds (x/1, x/127,      *)
(* x/255) are all told apart by f32 as well.  A String is a sequence of    *)
(* one-character strings.                                                  *)
(***************************************************************************)
EXTENDS Integers, Sequences, FiniteSets, TLC

VARIABLES
    ctrls,      \* Interpreter.ctrls: the control logic instances, in construction order
    last,       \* the last event handed to the engine, the engine's return value and the answering instance
    hist,       \* history: {} no event yet, {n} only hardware events on number n so far, {-1} anything else
    presses,    \* history: while hist is {n}, the parity (0 or 1) of the press events (val != 0) handled so far; 0 otherwise
    fb,         \* history: per instance, None or Some of the value of the latest hardware feedback it emitted
    mapping,    \* the config.rs Mapping handed to expand_iter
    expanded,   \* what expand_iter returned for it
    build,      \* "debug" (u8 overflow panics) or "release" (u8 overflow wraps)
    all_bytes,  \* main.rs run: the interrupt read buffer
    num_bytes,  \* the number of bytes the interrupt read returned
    frame_i,    \* the index i of the frame-parsing loop (0-based, as in the source)
    delivered,  \* the (num, val) pairs the loop has handed to match_ctrl, in order
    frame_pc,   \* "idle", "loop" (inside the while loop) or "done" (loop left)
    config,     \* main.rs run: config.mappings
    reader_pc,  \* the hardware-reader loop of run: "idle", "loop" or "panicked"
    writer_pc,  \* run_writer: "idle", "bind", "recv", or where it ended ("bind_failed", "recv_failed", "decode_failed", "write_failed", "panicked")
    nreads,     \* the number of read_interrupt calls made
    reads,      \* history: what the latest read_interrupt call returned, preceded by the timeouts directly before it
    nrecv,      \* the number of recv_from calls made
    osc_out,    \* the OSC messages sent with sock.send_to, in order
    device,     \* the write_interrupt calls that reached the out endpoint, in order
    accepted,   \* the feedback messages match_osc returned to run_writer, in order
    lock,       \* the lock around the engine: None, or Some(thread) holding it
    held,       \* per thread: None, or Some of the event it is handling and the control state it read
    seq_ctrls,  \* the control states after handling the completed events one after another
    done,       \* the last completed event: its thread, its response, and the response of the sequential handling
    new_config, \* Interpreter::new: the concrete mappings of the configuration, in expansion order
    new_i       \* Interpreter::new: the number of concrete mappings the loop has consumed

engineVars == <<ctrls, last, hist, presses, fb>>
expandVars == <<mapping, expanded, build>>
frameVars == <<all_bytes, num_bytes, frame_i, delivered, frame_pc>>
vars == <<ctrls, last, hist, presses, fb, mapping, expanded, build,
          all_bytes, num_bytes, frame_i, delivered, frame_pc,
          config, reader_pc, writer_pc, nreads, reads, nrecv, osc_out, device, accepted,
          lock, held, seq_ctrls, done, new_config, new_i>>
newVars == <<new_config, new_i>>
lockVars == <<lock, held, seq_ctrls, done>>
mainVars == <<config, reader_pc, writer_pc, nreads, reads, nrecv, osc_out, device, accepted>>

(***************************************************************************)
(* Option, u8 and f32 helpers.                                             *)
(***************************************************************************)
None == <<>>
Some(x) == <<x>>
IsSome(o) == o # <<>>
Unwrap(o) == o[1]

RECURSIVE BitOr(_, _)
BitOr(a, b) ==
    IF a = 0 THEN b
    ELSE IF b = 0 THEN a
    ELSE (IF a % 2 = 1 \/ b % 2 = 1 THEN 1 ELSE 0) + 2 * BitOr(a \div 2, b \div 2)

RECURSIVE BitAnd(_, _)
BitAnd(a, b) ==
    IF a = 0 \/ b = 0 THEN 0
    ELSE (IF a % 2 = 1 /\ b % 2 = 1 THEN 1 ELSE 0) + 2 * BitAnd(a \div 2, b \div 2)

\* u8 << 1: the top bit is shifted out
Shl1(x) == (x * 2) % 256
\* u8 >> 1
Shr1(x) == x \div 2

\* OscType::Float(num/den) and a non-float argument
Float(n, d) == [type |-> "Float", num |-> n, den |-> d]
OscInt(n) == [type |-> "Int", num |-> n, den |-> 1]
FloatEq(a, b) == a.num * b.den = b.num * a.den

\* a conversion that truncates instead of rounding
float_to_7bit_truncating(val) ==
    LET n == IF val.num < 0 THEN 0 ELSE IF val.num > val.den THEN val.den ELSE val.num
    IN  (127 * n) \div val.den

\* float_to_7bit: (val.max(0.0).min(1.0) * 127.0).round() as u8
float_to_7bit(val) ==
    LET n == IF val.num < 0 THEN 0 ELSE IF val.num > val.den THEN val.den ELSE val.num
    IN  (2 * 127 * n + val.den) \div (2 * val.den)

(***************************************************************************)
(* Responses.                                                              *)
(***************************************************************************)
Response_new == [ctrl |-> None, osc |-> None, midi |-> None]
OscResponse(addr, args) == [addr |-> addr, args |-> args]
IsEmpty(r) == r.ctrl = None /\ r.osc = None /\ r.midi = None

\* a handler's outcome: the instance afterwards and the Option<Response> returned
Ret(self, ret) == [self |-> self, ret |-> ret]

(***************************************************************************)
(* config.rs: Numbering, Mapping, expand_iter                              *)
(***************************************************************************)
\* a u8 operation that overflowed in a debug build
PANIC == -1

\* u8 `a + b`: panics in a debug build on overflow, wraps in a release build
AddU8(a, b, bld) ==
    IF a + b > 255 THEN (IF bld = "debug" THEN PANIC ELSE (a + b) % 256) ELSE a + b

\* u8 `a - b`
SubU8(a, b, bld) ==
    IF a < b THEN (IF bld = "debug" THEN PANIC ELSE (a - b + 256) % 256) ELSE a - b

\* `hi - lo + 1`
RangeNum(lo, hi, bld) ==
    LET d == SubU8(hi, lo, bld)
    IN  IF d = PANIC THEN PANIC ELSE AddU8(d, 1, bld)

NumberingSingle(seq, in, out, midi) ==
    [tag |-> "Single", ctrl_in_sequence |-> seq, ctrl_in |-> in, ctrl_out |-> out, midi |-> midi]
NumberingRange(in, out, midi) ==
    [tag |-> "Range", ctrl_in |-> in, ctrl_out |-> out, midi |-> midi]
Mapping(name, numbering, ctrl_kind, midi_kind) ==
    [name |-> name, numbering |-> numbering, ctrl_kind |-> ctrl_kind, midi_kind |-> midi_kind]

\* the present ranges, in the order ctrl_in, ctrl_out, midi (filter_map)
PresentRanges(n) == n.ctrl_in \o n.ctrl_out \o n.midi

\* the loop of num_alternatives over the present ranges
RECURSIVE NumAltLoop(_, _, _)
NumAltLoop(ranges, num_opt, bld) ==
    IF ranges = <<>> THEN [panic |-> FALSE, val |-> num_opt]
    ELSE LET range_num == RangeNum(Head(ranges)[1], Head(ranges)[2], bld) IN
         IF range_num = PANIC THEN [panic |-> TRUE, val |-> None]
         ELSE IF ~IsSome(num_opt) THEN NumAltLoop(Tail(ranges), Some(range_num), bld)
         ELSE IF range_num # Unwrap(num_opt) THEN [panic |-> FALSE, val |-> None]
         ELSE NumAltLoop(Tail(ranges), num_opt, bld)

\* a num_alternatives that takes the size of the first present range
num_alternatives_firstRange(n, bld) ==
    IF n.tag = "Single" THEN [panic |-> FALSE, val |-> Some(1)]
    ELSE IF PresentRanges(n) = <<>> THEN [panic |-> FALSE, val |-> None]
    ELSE NumAltLoop(<<PresentRanges(n)[1]>>, None, bld)

\* Numbering::num_alternatives
num_alternatives(n, bld) ==
    IF n.tag = "Single" THEN [panic |-> FALSE, val |-> Some(1)]
    ELSE NumAltLoop(PresentRanges(n), None, bld)

\* str::replace(pat, rep): every non-overlapping occurrence, left to right
RECURSIVE Replace(_, _, _)
Replace(str, pat, rep) ==
    IF Len(str) < Len(pat) THEN str
    ELSE IF SubSeq(str, 1, Len(pat)) = pat
    THEN rep \o Replace(SubSeq(str, Len(pat) + 1, Len(str)), pat, rep)
    ELSE <<Head(str)>> \o Replace(Tail(str), pat, rep)

\* u8::to_string
RECURSIVE to_string(_)
to_string(n) ==
    LET digits == <<"0", "1", "2", "3", "4", "5", "6", "7", "8", "9">>
    IN  IF n < 10 THEN <<digits[n + 1]>> ELSE to_string(n \div 10) \o <<digits[(n % 10) + 1]>>

\* the placeholder "{i}"
Placeholder == <<"{", "i", "}">>

\* self.name.replace("{i}", &i.to_string())
SubstName(name, i) == Replace(name, Placeholder, to_string(i))

\* Mapping::osc_addr(i)
Mapping_osc_addr(m, i) == <<"/">> \o SubstName(m.name, i)

\* a map that keeps the low end of the range for every index
ShiftOpt_noShift(range, i, bld) ==
    IF IsSome(range) THEN Some(Unwrap(range)[1]) ELSE None

\* range.map(|(lo, hi)| lo + i)
ShiftOpt(range, i, bld) ==
    IF IsSome(range) THEN Some(AddU8(Unwrap(range)[1], i, bld)) ELSE None

\* the mapping pushed for index i by the Range arm of expand_iter
ExpandOne(m, i, bld) ==
    Mapping(SubstName(m.name, i),
            NumberingSingle(None,
                            ShiftOpt(m.numbering.ctrl_in, i, bld),
                            ShiftOpt(m.numbering.ctrl_out, i, bld),
                            ShiftOpt(m.numbering.midi, i, bld)),
            m.ctrl_kind,
            m.midi_kind)

Overflowed(m) ==
    \/ m.numbering.ctrl_in = Some(PANIC)
    \/ m.numbering.ctrl_out = Some(PANIC)
    \/ m.numbering.midi = Some(PANIC)

\* Mapping::expand_iter: the mappings yielded, or a panic
expand_iter(m, bld) ==
    IF m.numbering.tag = "Single" THEN [panic |-> FALSE, mappings |-> <<m>>]
    ELSE LET na == num_alternatives(m.numbering, bld) IN
         IF na.panic \/ ~IsSome(na.val) THEN [panic |-> TRUE, mappings |-> <<>>]
         ELSE LET num == Unwrap(na.val)
                  out == [k \in 1..num |-> ExpandOne(m, k - 1, bld)]
              IN  IF \E k \in 1..num : Overflowed(out[k])
                  THEN [panic |-> TRUE, mappings |-> <<>>]
                  ELSE [panic |-> FALSE, mappings |-> out]

(***************************************************************************)
(* MIDI status bytes and value bytes used by the interpreter.              *)
(***************************************************************************)
CC_STATUS == 176
NOTE_ON_STATUS == 144
NOTE_OFF_STATUS == 128
ON_VALUE == 127
CHANNEL_MASK == 15
STATUS_MASK == 240

(***************************************************************************)
(* OnOffLogic                                                              *)
(***************************************************************************)
\* a MIDI part that turns a note off with a Note-On of velocity 0
OnOff_midi_resp_noteOnZero(self, new_state) ==
    IF ~IsSome(self.midi) THEN None
    ELSE LET midi == Unwrap(self.midi) IN
         IF midi.kind = "Cc"
         THEN Some(<<BitOr(CC_STATUS, midi.channel), midi.num, IF new_state THEN ON_VALUE ELSE 0>>)
         ELSE Some(<<BitOr(NOTE_ON_STATUS, midi.channel), midi.num, IF new_state THEN ON_VALUE ELSE 0>>)

\* OnOffLogic::update, the MIDI part: midi.map(|midi| ...)
OnOff_midi_resp(self, new_state) ==
    IF ~IsSome(self.midi) THEN None
    ELSE LET midi == Unwrap(self.midi) IN
         IF midi.kind = "Cc"
         THEN Some(<<BitOr(CC_STATUS, midi.channel), midi.num, IF new_state THEN ON_VALUE ELSE 0>>)
         ELSE IF new_state
              THEN Some(<<BitOr(NOTE_ON_STATUS, midi.channel), midi.num, ON_VALUE>>)
              ELSE Some(<<BitOr(NOTE_OFF_STATUS, midi.channel), midi.num, 0>>)

\* an update that forgets the early return for an unchanged state
OnOff_update_noDedup(self, new_state, remember) ==
    Ret(IF remember THEN [self EXCEPT !.state = new_state] ELSE self,
        [osc  |-> Some(OscResponse(self.osc_addr, <<Float(IF new_state THEN 1 ELSE 0, 1)>>)),
         ctrl |-> IF IsSome(self.ctrl_out_num)
                  THEN Some(<<Unwrap(self.ctrl_out_num), IF new_state THEN ON_VALUE ELSE 0>>)
                  ELSE None,
         midi |-> OnOff_midi_resp(self, new_state)])

\* OnOffLogic::update(new_state, remember) -> Response
OnOff_update(self, new_state, remember) ==
    LET changed == IF remember THEN new_state # self.state ELSE TRUE
        self2 == IF remember THEN [self EXCEPT !.state = new_state] ELSE self
    IN  IF remember /\ ~changed
        THEN Ret(self2, Response_new)
        ELSE Ret(self2,
                 [osc  |-> Some(OscResponse(self.osc_addr,
                                            <<Float(IF new_state THEN 1 ELSE 0, 1)>>)),
                  ctrl |-> IF IsSome(self.ctrl_out_num)
                           THEN Some(<<Unwrap(self.ctrl_out_num),
                                       IF new_state THEN ON_VALUE ELSE 0>>)
                           ELSE None,
                  midi |-> OnOff_midi_resp(self, new_state)])

\* OnOffLogic::from_mapping
OnOff_from_mapping(m) ==
    IF m.ctrl_kind.tag = "OnOff"
    THEN Some([logic |-> "OnOff",
               mode |-> m.ctrl_kind.mode,
               ctrl_in_num |-> m.ctrl_in_num,
               ctrl_out_num |-> m.ctrl_out_num,
               midi |-> m.midi,
               osc_addr |-> Mapping_osc_addr(m, 0),
               state |-> FALSE])
    ELSE None

\* a handle_ctrl whose Toggle mode toggles on release as well as on press
OnOff_handle_ctrl_toggleOnRelease(self, num, val) ==
    IF ~IsSome(self.ctrl_in_num) THEN Ret(self, None)
    ELSE IF num # Unwrap(self.ctrl_in_num) THEN Ret(self, None)
    ELSE
    LET pressed == val # 0
        new_state == IF self.mode = "Toggle" THEN ~self.state ELSE pressed
        u == OnOff_update(self, new_state, self.mode # "Raw")
    IN  Ret(u.self,
            Some([ctrl |-> IF self.mode # "Raw" THEN u.ret.ctrl ELSE None,
                  osc  |-> u.ret.osc,
                  midi |-> u.ret.midi]))

\* a handle_ctrl whose Raw mode remembers the state, so that a repeated value
\* is answered with an empty response
OnOff_handle_ctrl_rawRemembers(self, num, val) ==
    IF ~IsSome(self.ctrl_in_num) THEN Ret(self, None)
    ELSE IF num # Unwrap(self.ctrl_in_num) THEN Ret(self, None)
    ELSE
    LET pressed == val # 0
        new_state == CASE self.mode = "Raw" -> pressed
                       [] self.mode = "Momentary" -> pressed
                       [] self.mode = "Toggle" -> IF pressed THEN ~self.state ELSE self.state
        send_ctrl == CASE self.mode = "Raw" -> FALSE
                       [] self.mode = "Momentary" -> TRUE
                       [] self.mode = "Toggle" -> pressed
        send_osc_midi == CASE self.mode = "Raw" -> TRUE
                           [] self.mode = "Momentary" -> TRUE
                           [] self.mode = "Toggle" -> pressed
        u == OnOff_update(self, new_state, TRUE)
    IN  Ret(u.self,
            Some([ctrl |-> IF send_ctrl THEN u.ret.ctrl ELSE None,
                  osc  |-> IF send_osc_midi THEN u.ret.osc ELSE None,
                  midi |-> IF send_osc_midi THEN u.ret.midi ELSE None]))

\* OnOffLogic::handle_ctrl
OnOff_handle_ctrl(self, num, val) ==
    IF ~IsSome(self.ctrl_in_num) THEN Ret(self, None)
    ELSE IF num # Unwrap(self.ctrl_in_num) THEN Ret(self, None)
    ELSE
    LET pressed == val # 0
        new_state == CASE self.mode = "Raw" -> pressed
                       [] self.mode = "Momentary" -> pressed
                       [] self.mode = "Toggle" -> IF pressed THEN ~self.state ELSE self.state
        send_ctrl == CASE self.mode = "Raw" -> FALSE
                       [] self.mode = "Momentary" -> TRUE
                       [] self.mode = "Toggle" -> pressed
        send_osc_midi == CASE self.mode = "Raw" -> TRUE
                           [] self.mode = "Momentary" -> TRUE
                           [] self.mode = "Toggle" -> pressed
        remember == self.mode # "Raw"
        u == OnOff_update(self, new_state, remember)
    IN  Ret(u.self,
            Some([ctrl |-> IF send_ctrl THEN u.ret.ctrl ELSE None,
                  osc  |-> IF send_osc_midi THEN u.ret.osc ELSE None,
                  midi |-> IF send_osc_midi THEN u.ret.midi ELSE None]))

\* a handle_osc that calls update(.., false): feedback without storing the state
OnOff_handle_osc_noRemember(self, msg) ==
    IF ~IsSome(self.ctrl_out_num) THEN Ret(self, None)
    ELSE IF msg.addr # self.osc_addr THEN Ret(self, None)
    ELSE IF Len(msg.args) < 1 THEN Ret(self, None)
    ELSE IF msg.args[1].type # "Float" THEN Ret(self, None)
    ELSE LET u == OnOff_update(self, msg.args[1].num # 0, FALSE)
         IN  Ret(u.self, Some([Response_new EXCEPT !.ctrl = u.ret.ctrl]))

\* a handle_osc that returns the whole response of update, OSC part included
OnOff_handle_osc_echo(self, msg) ==
    IF ~IsSome(self.ctrl_out_num) THEN Ret(self, None)
    ELSE IF msg.addr # self.osc_addr THEN Ret(self, None)
    ELSE IF Len(msg.args) < 1 THEN Ret(self, None)
    ELSE IF msg.args[1].type # "Float" THEN Ret(self, None)
    ELSE LET u == OnOff_update(self, msg.args[1].num # 0, TRUE)
         IN  Ret(u.self, Some(u.ret))

\* OnOffLogic::handle_osc
OnOff_handle_osc(self, msg) ==
    IF ~IsSome(self.ctrl_out_num) THEN Ret(self, None)
    ELSE IF msg.addr # self.osc_addr THEN Ret(self, None)
    ELSE IF Len(msg.args) < 1 THEN Ret(self, None)
    ELSE IF msg.args[1].type # "Float" THEN Ret(self, None)
    ELSE LET u == OnOff_update(self, msg.args[1].num # 0, TRUE)
         IN  Ret(u.self, Some([Response_new EXCEPT !.ctrl = u.ret.ctrl]))

\* a handle_midi that takes every Note-On for "on", whatever its velocity
OnOff_handle_midi_velocityIgnored(self, msg) ==
    IF ~IsSome(self.ctrl_out_num) THEN Ret(self, None)
    ELSE IF ~IsSome(self.midi) THEN Ret(self, None)
    ELSE IF Len(msg) # 3 THEN Ret(self, None)
    ELSE
    LET midi_spec == Unwrap(self.midi)
        channel == BitAnd(msg[1], CHANNEL_MASK)
        status == BitAnd(msg[1], STATUS_MASK)
        data1 == msg[2]
        data2 == msg[3]
    IN  IF channel # midi_spec.channel THEN Ret(self, None)
        ELSE IF midi_spec.kind = "Cc"
        THEN IF status # CC_STATUS \/ data1 # midi_spec.num THEN Ret(self, None)
             ELSE LET u == OnOff_update(self, data2 > 0, TRUE)
                  IN  Ret(u.self, Some([Response_new EXCEPT !.ctrl = u.ret.ctrl]))
        ELSE IF (status # NOTE_ON_STATUS /\ status # NOTE_OFF_STATUS) \/ data1 # midi_spec.num
             THEN Ret(self, None)
             ELSE LET u == OnOff_update(self, status = NOTE_ON_STATUS, TRUE)
                  IN  Ret(u.self, Some([Response_new EXCEPT !.ctrl = u.ret.ctrl]))

\* OnOffLogic::handle_midi
OnOff_handle_midi(self, msg) ==
    IF ~IsSome(self.ctrl_out_num) THEN Ret(self, None)
    ELSE IF ~IsSome(self.midi) THEN Ret(self, None)
    ELSE IF Len(msg) # 3 THEN Ret(self, None)
    ELSE
    LET midi_spec == Unwrap(self.midi)
        channel == BitAnd(msg[1], CHANNEL_MASK)
        status == BitAnd(msg[1], STATUS_MASK)
        data1 == msg[2]
        data2 == msg[3]
    IN  IF channel # midi_spec.channel THEN Ret(self, None)
        ELSE IF midi_spec.kind = "Cc"
        THEN IF status # CC_STATUS \/ data1 # midi_spec.num THEN Ret(self, None)
             ELSE LET u == OnOff_update(self, data2 > 0, TRUE)
                  IN  Ret(u.self, Some([Response_new EXCEPT !.ctrl = u.ret.ctrl]))
        ELSE IF (status # NOTE_ON_STATUS /\ status # NOTE_OFF_STATUS) \/ data1 # midi_spec.num
             THEN Ret(self, None)
             ELSE LET u == OnOff_update(self, status = NOTE_ON_STATUS /\ data2 > 0, TRUE)
                  IN  Ret(u.self, Some([Response_new EXCEPT !.ctrl = u.ret.ctrl]))

(***************************************************************************)
(* EightBitLogic                                                           *)
(***************************************************************************)
\* EightBitLogic::from_mapping
EightBit_from_mapping(m) ==
    IF m.ctrl_kind.tag # "EightBit" THEN None
    ELSE IF ~IsSome(m.ctrl_in_sequence) THEN None
    ELSE IF Len(Unwrap(m.ctrl_in_sequence)) < 2 THEN None
    ELSE Some([logic |-> "EightBit",
               ctrl_in_hi_num |-> Unwrap(m.ctrl_in_sequence)[1],
               ctrl_in_lo_num |-> Unwrap(m.ctrl_in_sequence)[2],
               midi |-> m.midi,
               osc_addr |-> Mapping_osc_addr(m, 0),
               state |-> <<0, 0>>])

\* EightBitLogic::handle_ctrl, the MIDI part: midi.map(|midi| ...).flatten()
\* a MIDI part that carries the assembled 8-bit value unshifted
EightBit_midi_resp_unshifted(self, val8) ==
    IF ~IsSome(self.midi) THEN None
    ELSE LET midi == Unwrap(self.midi) IN
         IF midi.kind = "Cc"
         THEN Some(<<BitOr(CC_STATUS, midi.channel), midi.num, val8>>)
         ELSE None

\* EightBitLogic: the MIDI part of the response of handle_ctrl
EightBit_midi_resp(self, val8) ==
    IF ~IsSome(self.midi) THEN None
    ELSE LET midi == Unwrap(self.midi) IN
         IF midi.kind = "Cc"
         THEN Some(<<BitOr(CC_STATUS, midi.channel), midi.num, Shr1(val8)>>)
         ELSE None

\* a handle_ctrl that stores the value of an event on a foreign number
\* before it declines
EightBit_handle_ctrl_storesUnmatched(self, num, val) ==
    IF num = self.ctrl_in_hi_num
    THEN Ret([self EXCEPT !.state[1] = val], Some(Response_new))
    ELSE IF num = self.ctrl_in_lo_num
    THEN LET self2 == [self EXCEPT !.state[2] = val]
             val8 == BitOr(Shl1(self2.state[1]), IF self2.state[2] # 0 THEN 1 ELSE 0)
         IN  Ret(self2,
                 Some([ctrl |-> None,
                       osc  |-> Some(OscResponse(self.osc_addr, <<Float(val8, 255)>>)),
                       midi |-> EightBit_midi_resp(self2, val8)]))
    ELSE Ret([self EXCEPT !.state[1] = val], None)

\* a handle_ctrl that combines the two bytes without shifting the hi byte
EightBit_handle_ctrl_noShift(self, num, val) ==
    IF num = self.ctrl_in_hi_num
    THEN Ret([self EXCEPT !.state[1] = val], Some(Response_new))
    ELSE IF num = self.ctrl_in_lo_num
    THEN LET self2 == [self EXCEPT !.state[2] = val]
             val8 == BitOr(self2.state[1], IF self2.state[2] # 0 THEN 1 ELSE 0)
         IN  Ret(self2,
                 Some([ctrl |-> None,
                       osc  |-> Some(OscResponse(self.osc_addr, <<Float(val8, 255)>>)),
                       midi |-> EightBit_midi_resp(self2, val8)]))
    ELSE Ret(self, None)

\* EightBitLogic::handle_ctrl
EightBit_handle_ctrl(self, num, val) ==
    IF num = self.ctrl_in_hi_num
    THEN Ret([self EXCEPT !.state[1] = val], Some(Response_new))
    ELSE IF num = self.ctrl_in_lo_num
    THEN LET self2 == [self EXCEPT !.state[2] = val]
             val8 == BitOr(Shl1(self2.state[1]), IF self2.state[2] # 0 THEN 1 ELSE 0)
         IN  Ret(self2,
                 Some([ctrl |-> None,
                       osc  |-> Some(OscResponse(self.osc_addr, <<Float(val8, 255)>>)),
                       midi |-> EightBit_midi_resp(self2, val8)]))
    ELSE Ret(self, None)

\* a handle_osc that takes a float sent to the control's address for its value
EightBit_handle_osc_accepts(self, msg) ==
    IF msg.addr # self.osc_addr THEN Ret(self, None)
    ELSE IF Len(msg.args) < 1 THEN Ret(self, None)
    ELSE IF msg.args[1].type # "Float" THEN Ret(self, None)
    ELSE Ret([self EXCEPT !.state = <<float_to_7bit(msg.args[1]), 0>>], Some(Response_new))

\* EightBitLogic::handle_osc
EightBit_handle_osc(self, msg) == Ret(self, None)

\* EightBitLogic::handle_midi
EightBit_handle_midi(self, msg) == Ret(self, None)

(***************************************************************************)
(* RelativeLogic                                                           *)
(***************************************************************************)
LED_FIRST == 7
LED_STEP == 11
MAX_7BIT == 127
DELTA_SIGN == 64

\* u8::saturating_sub
SaturatingSub(a, b) == IF a < b THEN 0 ELSE a - b

\* RelativeLogic::encoder_led_val
encoder_led_val(val) ==
    IF val < LED_FIRST THEN 0
    ELSE (SaturatingSub(val, LED_FIRST) \div LED_STEP) * LED_STEP + LED_FIRST

\* a MIDI part without the is_empty filter: an empty message for NoteOnOff
Relative_midi_resp_emptyMessage(self, new_state) ==
    IF ~IsSome(self.midi) THEN None
    ELSE LET midi == Unwrap(self.midi) IN
         IF midi.kind = "Cc"
         THEN Some(<<BitOr(CC_STATUS, midi.channel), midi.num, new_state>>)
         ELSE Some(<<>>)

\* RelativeLogic::update, the MIDI part: midi.map(|midi| ...).flatten()
Relative_midi_resp(self, new_state) ==
    IF ~IsSome(self.midi) THEN None
    ELSE LET midi == Unwrap(self.midi) IN
         IF midi.kind = "Cc"
         THEN Some(<<BitOr(CC_STATUS, midi.channel), midi.num, new_state>>)
         ELSE None

\* an update that sends the LED value on every change of state
Relative_update_everyChange(self, new_state) ==
    LET self2 == [self EXCEPT !.state = new_state]
    IN  IF new_state = self.state
        THEN Ret(self2, Response_new)
        ELSE Ret(self2,
                 [ctrl |-> IF IsSome(self.ctrl_out_num)
                           THEN Some(<<Unwrap(self.ctrl_out_num), encoder_led_val(new_state)>>)
                           ELSE None,
                  osc  |-> Some(OscResponse(self.osc_addr, <<Float(new_state, MAX_7BIT)>>)),
                  midi |-> Relative_midi_resp(self2, new_state)])

\* an update that builds the OSC and MIDI parts before it stores the new state
Relative_update_staleValue(self, new_state) ==
    LET self2 == [self EXCEPT !.state = new_state]
    IN  IF new_state = self.state
        THEN Ret(self2, Response_new)
        ELSE Ret(self2,
                 [ctrl |-> IF encoder_led_val(new_state) # encoder_led_val(self.state)
                              /\ IsSome(self.ctrl_out_num)
                           THEN Some(<<Unwrap(self.ctrl_out_num), encoder_led_val(new_state)>>)
                           ELSE None,
                  osc  |-> Some(OscResponse(self.osc_addr, <<Float(self.state, MAX_7BIT)>>)),
                  midi |-> Relative_midi_resp(self, self.state)])

\* RelativeLogic::update(new_state) -> Response
Relative_update(self, new_state) ==
    LET changed == new_state # self.state
        new_encoder_led_val == encoder_led_val(new_state)
        old_encoder_led_val == encoder_led_val(self.state)
        encoder_led_val_changed == new_encoder_led_val # old_encoder_led_val
        self2 == [self EXCEPT !.state = new_state]
    IN  IF ~changed
        THEN Ret(self2, Response_new)
        ELSE Ret(self2,
                 [ctrl |-> IF encoder_led_val_changed /\ IsSome(self.ctrl_out_num)
                           THEN Some(<<Unwrap(self.ctrl_out_num), new_encoder_led_val>>)
                           ELSE None,
                  osc  |-> Some(OscResponse(self.osc_addr, <<Float(new_state, MAX_7BIT)>>)),
                  midi |-> Relative_midi_resp(self2, new_state)])

\* RelativeLogic::from_mapping
Relative_from_mapping(m) ==
    IF m.ctrl_kind.tag = "Relative"
    THEN Some([logic |-> "Relative",
               mode |-> m.ctrl_kind.mode,
               ctrl_in_num |-> m.ctrl_in_num,
               ctrl_out_num |-> m.ctrl_out_num,
               midi |-> m.midi,
               osc_addr |-> Mapping_osc_addr(m, 0),
               state |-> 0])
    ELSE None

\* `val as i8`
AsI8(val) == IF val < 128 THEN val ELSE val - 256
\* i8::wrapping_add
WrappingAddI8(a, b) == ((a + b + 128) % 256) - 128
\* a delta that is read as an unsigned value
Delta_unsigned(val) == val

\* the signed delta of a raw byte: if val < 0x40 { val as i8 } else { (val as i8).wrapping_add(i8::MIN) }
Delta(val) == IF val < DELTA_SIGN THEN AsI8(val) ELSE WrappingAddI8(AsI8(val), -128)
\* u8::wrapping_add_signed in place of saturating_add_signed
SaturatingAddSigned_wrapping(x, d) == (x + d + 256) % 256

\* u8::saturating_add_signed
SaturatingAddSigned(x, d) == IF x + d < 0 THEN 0 ELSE IF x + d > 255 THEN 255 ELSE x + d
Min(a, b) == IF a < b THEN a ELSE b

\* RelativeLogic::handle_ctrl
Relative_handle_ctrl(self, num, val) ==
    IF ~IsSome(self.ctrl_in_num) THEN Ret(self, None)
    ELSE IF num # Unwrap(self.ctrl_in_num) THEN Ret(self, None)
    ELSE LET delta == Delta(val) IN
         IF self.mode = "Raw"
         THEN Ret(self, Some([osc  |-> Some(OscResponse(self.osc_addr, <<Float(delta, 1)>>)),
                              ctrl |-> None,
                              midi |-> None]))
         ELSE LET new_state == Min(SaturatingAddSigned(self.state, delta), MAX_7BIT)
                  u == Relative_update(self, new_state)
              IN  Ret(u.self, Some(u.ret))

\* a handle_osc that takes a missing or non-float argument for 0.0
Relative_handle_osc_defaultsArg(self, msg) ==
    IF ~IsSome(self.ctrl_out_num) THEN Ret(self, None)
    ELSE IF msg.addr # self.osc_addr THEN Ret(self, None)
    ELSE LET val == IF Len(msg.args) < 1 THEN Float(0, 1)
                    ELSE IF msg.args[1].type # "Float" THEN Float(0, 1)
                    ELSE msg.args[1]
             u == Relative_update(self, float_to_7bit(val))
         IN  Ret(u.self, Some([Response_new EXCEPT !.ctrl = u.ret.ctrl]))

\* a handle_osc that stores the new state and drops the feedback of update
Relative_handle_osc_silent(self, msg) ==
    IF ~IsSome(self.ctrl_out_num) THEN Ret(self, None)
    ELSE IF msg.addr # self.osc_addr THEN Ret(self, None)
    ELSE IF Len(msg.args) < 1 THEN Ret(self, None)
    ELSE IF msg.args[1].type # "Float" THEN Ret(self, None)
    ELSE LET u == Relative_update(self, float_to_7bit(msg.args[1]))
         IN  Ret(u.self, Some(Response_new))

\* RelativeLogic::handle_osc
Relative_handle_osc(self, msg) ==
    IF ~IsSome(self.ctrl_out_num) THEN Ret(self, None)
    ELSE IF msg.addr # self.osc_addr THEN Ret(self, None)
    ELSE IF Len(msg.args) < 1 THEN Ret(self, None)
    ELSE IF msg.args[1].type # "Float" THEN Ret(self, None)
    ELSE LET u == Relative_update(self, float_to_7bit(msg.args[1]))
         IN  Ret(u.self, Some([Response_new EXCEPT !.ctrl = u.ret.ctrl]))

\* a handle_midi that returns the whole response of update, MIDI part included
Relative_handle_midi_echo(self, msg) ==
    IF ~IsSome(self.ctrl_out_num) THEN Ret(self, None)
    ELSE IF ~IsSome(self.midi) THEN Ret(self, None)
    ELSE IF Len(msg) # 3 THEN Ret(self, None)
    ELSE LET midi_spec == Unwrap(self.midi) IN
         IF BitAnd(msg[1], CHANNEL_MASK) # midi_spec.channel THEN Ret(self, None)
         ELSE IF BitAnd(msg[1], STATUS_MASK) # CC_STATUS THEN Ret(self, None)
         ELSE IF msg[2] # midi_spec.num THEN Ret(self, None)
         ELSE LET u == Relative_update(self, msg[3])
              IN  Ret(u.self, Some(u.ret))

\* RelativeLogic::handle_midi
Relative_handle_midi(self, msg) ==
    IF ~IsSome(self.ctrl_out_num) THEN Ret(self, None)
    ELSE IF ~IsSome(self.midi) THEN Ret(self, None)
    ELSE IF Len(msg) # 3 THEN Ret(self, None)
    ELSE LET midi_spec == Unwrap(self.midi) IN
         IF BitAnd(msg[1], CHANNEL_MASK) # midi_spec.channel THEN Ret(self, None)
         ELSE IF BitAnd(msg[1], STATUS_MASK) # CC_STATUS THEN Ret(self, None)
         ELSE IF msg[2] # midi_spec.num THEN Ret(self, None)
         ELSE LET u == Relative_update(self, msg[3])
              IN  Ret(u.self, Some([Response_new EXCEPT !.ctrl = u.ret.ctrl]))

(***************************************************************************)
(* Interpreter                                                             *)
(***************************************************************************)
\* events handed to the engine
CtrlEv(num, val) == [type |-> "ctrl", num |-> num, val |-> val, addr |-> <<>>, args |-> <<>>, msg |-> <<>>]
OscEv(addr, args) == [type |-> "osc", num |-> 0, val |-> 0, addr |-> addr, args |-> args, msg |-> <<>>]
MidiEv(msg) == [type |-> "midi", num |-> 0, val |-> 0, addr |-> <<>>, args |-> <<>>, msg |-> msg]
NoEv == [type |-> "none", num |-> 0, val |-> 0, addr |-> <<>>, args |-> <<>>, msg |-> <<>>]

\* dynamic dispatch of CtrlLogic::handle_ctrl / handle_osc / handle_midi
Dispatch(c, ev) ==
    CASE c.logic = "OnOff" /\ ev.type = "ctrl" -> OnOff_handle_ctrl(c, ev.num, ev.val)
      [] c.logic = "OnOff" /\ ev.type = "osc" -> OnOff_handle_osc(c, ev)
      [] c.logic = "OnOff" /\ ev.type = "midi" -> OnOff_handle_midi(c, ev.msg)
      [] c.logic = "EightBit" /\ ev.type = "ctrl" -> EightBit_handle_ctrl(c, ev.num, ev.val)
      [] c.logic = "EightBit" /\ ev.type = "osc" -> EightBit_handle_osc(c, ev)
      [] c.logic = "EightBit" /\ ev.type = "midi" -> EightBit_handle_midi(c, ev.msg)
      [] c.logic = "Relative" /\ ev.type = "ctrl" -> Relative_handle_ctrl(c, ev.num, ev.val)
      [] c.logic = "Relative" /\ ev.type = "osc" -> Relative_handle_osc(c, ev)
      [] c.logic = "Relative" /\ ev.type = "midi" -> Relative_handle_midi(c, ev.msg)

\* a loop that goes on past an empty response
Returns_skipEmpty(r) == IsSome(r.ret) /\ ~IsEmpty(Unwrap(r.ret))

\* whether the loop of an entry point returns the outcome r of one instance:
\* `if let Some(response) = ctrl.handle_...(..) { return Some(response); }`
Returns(r) == IsSome(r.ret)

\* the loop `for ctrl in &mut self.ctrls` from instance k on
RECURSIVE Scan(_, _, _)
Scan(cs, ev, k) ==
    IF k > Len(cs) THEN [ctrls |-> cs, ret |-> None, by |-> 0]
    ELSE LET r == Dispatch(cs[k], ev)
             cs2 == [cs EXCEPT ![k] = r.self]
         IN  IF Returns(r)
             THEN [ctrls |-> cs2, ret |-> r.ret, by |-> k]
             ELSE Scan(cs2, ev, k + 1)

\* Interpreter::handle_ctrl
Interpreter_handle_ctrl(cs, num, val) == Scan(cs, CtrlEv(num, val), 1)
\* Interpreter::handle_osc
Interpreter_handle_osc(cs, msg) == Scan(cs, OscEv(msg.addr, msg.args), 1)
\* Interpreter::handle_midi
Interpreter_handle_midi(cs, msg) == Scan(cs, MidiEv(msg), 1)

\* the constructors tried in order for one mapping
MakeLogic(m) ==
    IF IsSome(OnOff_from_mapping(m)) THEN OnOff_from_mapping(m)
    ELSE IF IsSome(EightBit_from_mapping(m)) THEN EightBit_from_mapping(m)
    ELSE Relative_from_mapping(m)

\* a loop body that gives up at the first mapping no constructor accepts
Interpreter_new_step_stops(cs, ms, k) ==
    LET logic_opt == MakeLogic(ms[k + 1])
    IN  IF IsSome(logic_opt)
        THEN [ctrls |-> Append(cs, Unwrap(logic_opt)), i |-> k + 1]
        ELSE [ctrls |-> cs, i |-> Len(ms)]

\* Interpreter::new, the body of the loop over the concrete mappings: the
\* mapping at 0-based position k is tried, the instance (if any) is pushed,
\* and the loop goes on with position k + 1
Interpreter_new_step(cs, ms, k) ==
    LET logic_opt == MakeLogic(ms[k + 1])
    IN  IF IsSome(logic_opt)
        THEN [ctrls |-> Append(cs, Unwrap(logic_opt)), i |-> k + 1]
        ELSE [ctrls |-> cs, i |-> k + 1]

\* Interpreter::new over the concrete mappings of a configuration
RECURSIVE Interpreter_new(_)
Interpreter_new(ms) ==
    IF ms = <<>> THEN <<>>
    ELSE LET logic_opt == MakeLogic(Head(ms))
         IN  (IF IsSome(logic_opt) THEN <<Unwrap(logic_opt)>> ELSE <<>>) \o Interpreter_new(Tail(ms))

(***************************************************************************)
(* The configurations and the events the model draws from.                 *)
(***************************************************************************)
\* hardware control numbers 1..MaxNum are sent by the device
MaxNum == 3
\* MIDI numbers FirstMidiNum..FirstMidiNum+MidiNums-1 arrive from the port
MidiNums == 2
\* the longest range handed to expand_iter
MaxCount == 11

\* the Mapping fields interpreter.rs reads
IMapping(name, tag, mode, seq, in, out, midi) ==
    [name |-> name, ctrl_kind |-> [tag |-> tag, mode |-> mode],
     ctrl_in_sequence |-> seq, ctrl_in_num |-> in, ctrl_out_num |-> out, midi |-> midi]
MidiSpec(channel, kind, num) == [channel |-> channel, kind |-> kind, num |-> num]

\* two momentary buttons on the same input number, a toggle button, and a
\* momentary button without LED
ConfigButtons ==
    << IMapping(<<"a">>, "OnOff", "Momentary", None, Some(1), Some(21), Some(MidiSpec(0, "Cc", 10))),
       IMapping(<<"b">>, "OnOff", "Momentary", None, Some(1), Some(22), Some(MidiSpec(0, "Cc", 11))),
       IMapping(<<"t">>, "OnOff", "Toggle", None, Some(2), Some(23), Some(MidiSpec(0, "NoteOnOff", 11))),
       IMapping(<<"q">>, "OnOff", "Momentary", None, Some(3), None, Some(MidiSpec(1, "Cc", 10))) >>

\* a crossfader read as two bytes, a raw button on its hi number, a toggle
\* button on its lo number
ConfigFader ==
    << IMapping(<<"a">>, "EightBit", "", Some(<<1, 2>>), None, None, Some(MidiSpec(0, "Cc", 10))),
       IMapping(<<"t">>, "OnOff", "Raw", None, Some(1), None, Some(MidiSpec(0, "NoteOnOff", 10))),
       IMapping(<<"b">>, "OnOff", "Toggle", None, Some(2), Some(23), None) >>

\* an accumulating encoder with an LED ring, and a raw encoder
ConfigEncoder ==
    << IMapping(<<"a">>, "Relative", "Accumulate", None, Some(1), Some(21), Some(MidiSpec(0, "Cc", 10))),
       IMapping(<<"b">>, "Relative", "Raw", None, Some(2), None, None) >>

\* an accumulating encoder bound to notes
ConfigNoteEncoder ==
    << IMapping(<<"a">>, "Relative", "Accumulate", None, Some(1), Some(21), Some(MidiSpec(0, "NoteOnOff", 10))) >>

\* a raw encoder and an accumulating encoder on the same input number, and a
\* crossfader bound to notes
ConfigShadowed ==
    << IMapping(<<"a">>, "Relative", "Raw", None, Some(1), None, Some(MidiSpec(0, "Cc", 10))),
       IMapping(<<"b">>, "Relative", "Accumulate", None, Some(1), Some(22), Some(MidiSpec(1, "Cc", 11))),
       IMapping(<<"t">>, "EightBit", "", Some(<<2, 3>>), None, None, Some(MidiSpec(0, "NoteOnOff", 11))) >>

\* a raw button with LED bound to notes, a raw button without LED bound to a
\* controller, and a raw button without MIDI binding
ConfigRaw ==
    << IMapping(<<"a">>, "OnOff", "Raw", None, Some(1), Some(21), Some(MidiSpec(0, "NoteOnOff", 10))),
       IMapping(<<"b">>, "OnOff", "Raw", None, Some(2), None, Some(MidiSpec(0, "Cc", 11))),
       IMapping(<<"t">>, "OnOff", "Raw", None, Some(3), Some(23), None) >>

\* a raw encoder with LED ring and MIDI binding
ConfigRawEncoder ==
    << IMapping(<<"a">>, "Relative", "Raw", None, Some(1), Some(21), Some(MidiSpec(0, "Cc", 10))) >>

Configs ==
    {ConfigButtons, ConfigFader, ConfigEncoder, ConfigNoteEncoder, ConfigShadowed, ConfigRaw,
     ConfigRawEncoder}

CtrlNums == 1..MaxNum
CtrlVals == {0, 1, 64, 127, 255}
OscAddrs == {<<"/", "a">>, <<"/", "b">>, <<"/", "z">>}
OscArgs == {<<Float(1, 1)>>, <<Float(0, 1)>>, <<Float(1, 2)>>, <<Float(2, 1)>>, <<>>, <<OscInt(1)>>}
FirstMidiNum == 10
MidiStatusBytes == {CC_STATUS, CC_STATUS + 1, NOTE_ON_STATUS, NOTE_ON_STATUS + 1, NOTE_OFF_STATUS}
MidiVals == {0, 127, 200}
MidiMsgs ==
    {<<s, n, v>> : s \in MidiStatusBytes, n \in FirstMidiNum..(FirstMidiNum + MidiNums - 1), v \in MidiVals}
    \cup {<<CC_STATUS, FirstMidiNum>>}

\* the Mapping expand_iter is applied to
Names ==
    {<<"k", "{", "i", "}">>, <<"{", "i", "}", "/", "v">>, <<"x">>,
     <<"{", "i", "}", "{", "i", "}">>, <<"{", "i">>}
RangeOpts ==
    {None, Some(<<3, 3>>), Some(<<3, 3 + MaxCount - 1>>),
     Some(<<20, 21>>), Some(<<20, 20 + MaxCount - 1>>), Some(<<240, 241>>),
     Some(<<3, 2>>), Some(<<3, 1>>), Some(<<254, 1>>)}
Kinds == {<<"OnOff", "Cc">>, <<"Relative", "CoarseFine">>}
RangeMappings ==
    {Mapping(nm, NumberingRange(in, out, midi), k[1], k[2]) :
        nm \in Names, in \in RangeOpts, out \in RangeOpts, midi \in RangeOpts, k \in Kinds}

\* the Single mappings expand_iter is applied to
SingleOpts == {None, Some(1), Some(255)}
SingleSeqs == {None, Some(<<1, 2>>)}
SingleMappings ==
    {Mapping(nm, NumberingSingle(seq, in, out, midi), k[1], k[2]) :
        nm \in Names, seq \in SingleSeqs, in \in SingleOpts, out \in SingleOpts,
        midi \in SingleOpts, k \in Kinds}

NoMapping == Mapping(<<>>, NumberingSingle(None, None, None, None), "OnOff", "Cc")
NotExpanded == [done |-> FALSE, panic |-> FALSE, mappings |-> <<>>]
NoLast == [ev |-> NoEv, ret |-> None, by |-> 0]

(***************************************************************************)
(* main.rs: the frame-parsing loop of the hardware reader.                 *)
(***************************************************************************)
\* let mut all_bytes = [0u8; 8]
BUF_SIZE == 8
\* the start byte of a report
SENTINEL == 176

\* while i+1 < num_bytes
FrameLoopCond(n, idx) == idx + 1 < n

\* a loop body without the sentinel test
FrameStep_noSkip(bytes, idx) ==
    [i |-> idx + 2, pair |-> Some(<<bytes[idx + 1], bytes[idx + 2]>>)]

\* a loop body whose sentinel branch continues without advancing the index
FrameStep_noAdvance(bytes, idx) ==
    IF bytes[idx + 1] = SENTINEL
    THEN [i |-> idx, pair |-> None]
    ELSE [i |-> idx + 2, pair |-> Some(<<bytes[idx + 1], bytes[idx + 2]>>)]

\* one iteration of the loop body at index idx: the next index and the pair
\* handed to match_ctrl, if any
FrameStep(bytes, idx) ==
    IF bytes[idx + 1] = SENTINEL
    THEN [i |-> idx + 1, pair |-> None]
    ELSE [i |-> idx + 2, pair |-> Some(<<bytes[idx + 1], bytes[idx + 2]>>)]

\* the pairs the loop hands to match_ctrl from index idx on
RECURSIVE ParseFrames(_, _, _)
ParseFrames(bytes, n, idx) ==
    IF ~FrameLoopCond(n, idx) THEN <<>>
    ELSE LET st == FrameStep(bytes, idx)
         IN  st.pair \o ParseFrames(bytes, n, st.i)

\* the byte values a read puts into the buffer
FrameBytes == {SENTINEL, 1, 2}
\* what an earlier read left in the part of the buffer this read did not fill
StaleBytes == {SENTINEL, 7}
\* the buffers after a read of n bytes
ReadBuffers(n) ==
    {[k \in 1..BUF_SIZE |-> IF k <= n THEN pre[k] ELSE stale] :
        pre \in [1..n -> FrameBytes], stale \in StaleBytes}

(***************************************************************************)
(* main.rs: the configuration types and the two lookups of the reader and  *)
(* writer loops.  A lookup returns [panic, val]: the code reaches          *)
(* unimplemented!() or a u8 overflow, or returns val.                      *)
(***************************************************************************)
CtrlNumSingle(n) == [tag |-> "Single", lo |-> n, hi |-> n]
CtrlNumRange(lo, hi) == [tag |-> "Range", lo |-> lo, hi |-> hi]
CtrlNumPair(a, b) == [tag |-> "Pair", lo |-> a, hi |-> b]

Panicked == [panic |-> TRUE, val |-> None]
Returned(v) == [panic |-> FALSE, val |-> v]

\* CtrlNum::match_num
CtrlNum_match_num(cn, num) ==
    IF cn.tag = "Single" /\ num = cn.lo THEN Some(0)
    ELSE IF cn.tag = "Range" /\ cn.lo <= num /\ num <= cn.hi THEN Some(num - cn.lo)
    ELSE None

\* CtrlNum::range_size
CtrlNum_range_size(cn, bld) ==
    IF cn.tag = "Single" THEN Returned(1)
    ELSE IF cn.tag = "Range"
    THEN LET n == RangeNum(cn.lo, cn.hi, bld)
         IN  IF n = PANIC THEN Panicked ELSE Returned(n)
    ELSE Panicked

\* CtrlNum::index_to_num
CtrlNum_index_to_num(cn, k, bld) ==
    IF cn.tag = "Single" /\ k = 0 THEN Returned(Some(cn.lo))
    ELSE IF cn.tag = "Range"
    THEN LET d == SubU8(cn.hi, cn.lo, bld) IN
         IF d = PANIC THEN Panicked
         ELSE IF k <= d
         THEN LET n == AddU8(cn.lo, k, bld)
              IN  IF n = PANIC THEN Panicked ELSE Returned(Some(n))
         ELSE Returned(None)
    ELSE IF cn.tag = "Pair" THEN Panicked
    ELSE Returned(None)

\* CtrlKind::ctrl_to_osc
CtrlKind_ctrl_to_osc(kind, val) ==
    IF kind = "Button" THEN Returned(<<Float(IF val = ON_VALUE THEN 1 ELSE 0, 1)>>)
    ELSE IF kind = "Relative"
    THEN Returned(<<Float(IF val < DELTA_SIGN THEN val ELSE val - 128, 1)>>)
    ELSE Panicked

\* CtrlKind::osc_to_ctrl
CtrlKind_osc_to_ctrl(kind, args) ==
    IF Len(args) < 1 THEN Returned(None)
    ELSE IF args[1].type # "Float" THEN Returned(None)
    ELSE IF kind \in {"Button", "Relative"} THEN Returned(Some(float_to_7bit(args[1])))
    ELSE Panicked

\* main.rs Mapping
MainMapping(name, in, out, kind) ==
    [name |-> name, ctrl_in_num |-> in, ctrl_out_num |-> out, ctrl_kind |-> kind]

\* Config::match_ctrl, from mapping k on
RECURSIVE MatchCtrlFrom(_, _, _, _)
MatchCtrlFrom(ms, k, num, val) ==
    IF k > Len(ms) THEN Returned(None)
    ELSE IF ~IsSome(ms[k].ctrl_in_num) THEN MatchCtrlFrom(ms, k + 1, num, val)
    ELSE LET idx == CtrlNum_match_num(Unwrap(ms[k].ctrl_in_num), num) IN
         IF ~IsSome(idx) THEN MatchCtrlFrom(ms, k + 1, num, val)
         ELSE LET args == CtrlKind_ctrl_to_osc(ms[k].ctrl_kind, val) IN
              IF args.panic THEN Panicked
              ELSE Returned(Some([addr |-> Mapping_osc_addr(ms[k], Unwrap(idx)),
                                  args |-> args.val]))

\* Config::match_ctrl
match_ctrl(ms, num, val) == MatchCtrlFrom(ms, 1, num, val)

\* Config::match_osc: the inner loop `for i in 0..range_size()` of mapping m,
\* from index k on; val None means the loop ended without a return
RECURSIVE MatchOscIndex(_, _, _, _, _)
MatchOscIndex(m, size, k, msg, bld) ==
    IF k >= size THEN Returned(None)
    ELSE IF Mapping_osc_addr(m, k) # msg.addr THEN MatchOscIndex(m, size, k + 1, msg, bld)
    ELSE LET num == CtrlNum_index_to_num(Unwrap(m.ctrl_out_num), k, bld) IN
         IF num.panic THEN Panicked
         ELSE IF ~IsSome(num.val) THEN MatchOscIndex(m, size, k + 1, msg, bld)
         ELSE LET val == CtrlKind_osc_to_ctrl(m.ctrl_kind, msg.args) IN
              IF val.panic THEN Panicked
              ELSE IF ~IsSome(val.val) THEN MatchOscIndex(m, size, k + 1, msg, bld)
              ELSE Returned(Some(<<Unwrap(num.val), Unwrap(val.val)>>))

\* Config::match_osc, from mapping k on
RECURSIVE MatchOscFrom(_, _, _, _)
MatchOscFrom(ms, k, msg, bld) ==
    IF k > Len(ms) THEN Returned(None)
    ELSE IF ~IsSome(ms[k].ctrl_out_num) THEN MatchOscFrom(ms, k + 1, msg, bld)
    ELSE LET size == CtrlNum_range_size(Unwrap(ms[k].ctrl_out_num), bld) IN
         IF size.panic THEN Panicked
         ELSE LET r == MatchOscIndex(ms[k], size.val, 0, msg, bld) IN
              IF r.panic THEN Panicked
              ELSE IF IsSome(r.val) THEN r
              ELSE MatchOscFrom(ms, k + 1, msg, bld)

\* Config::match_osc
match_osc(ms, msg, bld) == MatchOscFrom(ms, 1, msg, bld)

\* the reader loop for one interrupt read of n bytes: the pairs of the
\* buffer from `pairs` on are looked up and sent; send_ok tells whether
\* sock.send_to succeeds (it is unwrapped)
RECURSIVE ReaderPairs(_, _, _)
ReaderPairs(ms, pairs, send_ok) ==
    IF pairs = <<>> THEN [pc |-> "loop", sent |-> <<>>]
    ELSE LET data == match_ctrl(ms, Head(pairs)[1], Head(pairs)[2]) IN
         IF data.panic THEN [pc |-> "panicked", sent |-> <<>>]
         ELSE IF ~IsSome(data.val) THEN ReaderPairs(ms, Tail(pairs), send_ok)
         ELSE IF ~send_ok THEN [pc |-> "panicked", sent |-> <<>>]
         ELSE LET rest == ReaderPairs(ms, Tail(pairs), send_ok)
              IN  [pc |-> rest.pc, sent |-> <<Unwrap(data.val)>> \o rest.sent]

\* a reader loop that gives up on a read timeout
ReaderIteration_timeoutFatal(ms, res, send_ok) ==
    IF ~res.ok THEN [pc |-> IF res.err = "timeout" THEN "read_failed" ELSE "loop", sent |-> <<>>]
    ELSE ReaderPairs(ms, ParseFrames(res.bytes, Len(res.bytes), 0), send_ok)

\* one iteration of the reader loop; res is what read_interrupt returned
ReaderIteration(ms, res, send_ok) ==
    IF ~res.ok THEN [pc |-> "loop", sent |-> <<>>]
    ELSE ReaderPairs(ms, ParseFrames(res.bytes, Len(res.bytes), 0), send_ok)

\* a write that overtakes the writes made before it
write_interrupt_overtaking(dev, by, data) == <<[by |-> by, data |-> data]>> \o dev

\* handle.write_interrupt(endpoint.address, data, ..) by thread `by`
write_interrupt(dev, by, data) == Append(dev, [by |-> by, data |-> data])

\* a loop iteration that goes on to the next recv_from after a failed
\* receive or a failed write
WriterIteration_retries(ms, dev, acc, res, write_ok, bld) ==
    IF ~res.ok THEN [pc |-> "recv", device |-> dev, accepted |-> acc]
    ELSE IF res.packet.kind = "garbage" THEN [pc |-> "decode_failed", device |-> dev, accepted |-> acc]
    ELSE IF res.packet.kind = "bundle" THEN [pc |-> "recv", device |-> dev, accepted |-> acc]
    ELSE LET data == match_osc(ms, res.packet.msg, bld) IN
         IF data.panic THEN [pc |-> "panicked", device |-> dev, accepted |-> acc]
         ELSE IF ~IsSome(data.val) THEN [pc |-> "recv", device |-> dev, accepted |-> acc]
         ELSE IF ~write_ok
         THEN [pc |-> "recv", device |-> dev, accepted |-> Append(acc, Unwrap(data.val))]
         ELSE [pc |-> "recv",
               device |-> write_interrupt(dev, "writer", Unwrap(data.val)),
               accepted |-> Append(acc, Unwrap(data.val))]

\* one iteration of the loop of run_writer; res is what recv_from returned,
\* write_ok tells whether write_interrupt succeeds.  The pc tells where the
\* function returned: "recv_failed" (break), "decode_failed" and
\* "write_failed" (the ? operator).
WriterIteration(ms, dev, acc, res, write_ok, bld) ==
    IF ~res.ok THEN [pc |-> "recv_failed", device |-> dev, accepted |-> acc]
    ELSE IF res.packet.kind = "garbage" THEN [pc |-> "decode_failed", device |-> dev, accepted |-> acc]
    ELSE IF res.packet.kind = "bundle" THEN [pc |-> "recv", device |-> dev, accepted |-> acc]
    ELSE LET data == match_osc(ms, res.packet.msg, bld) IN
         IF data.panic THEN [pc |-> "panicked", device |-> dev, accepted |-> acc]
         ELSE IF ~IsSome(data.val) THEN [pc |-> "recv", device |-> dev, accepted |-> acc]
         ELSE IF ~write_ok
         THEN [pc |-> "write_failed", device |-> dev, accepted |-> Append(acc, Unwrap(data.val))]
         ELSE [pc |-> "recv",
               device |-> write_interrupt(dev, "writer", Unwrap(data.val)),
               accepted |-> Append(acc, Unwrap(data.val))]

NoPresses == 0
EngineIdle == ctrls = <<>> /\ last = NoLast /\ hist = {} /\ presses = NoPresses /\ fb = <<>>
ExpandIdle == mapping = NoMapping /\ expanded = NotExpanded /\ build = "release"
NewIdle == new_config = <<>> /\ new_i = 0
Threads == {"reader", "receiver"}
NotDone == [thread |-> "", ret |-> None, seq_ret |-> None]
LockIdle ==
    /\ lock = None /\ held = [t \in Threads |-> None]
    /\ seq_ctrls = <<>> /\ done = NotDone
MainIdle ==
    /\ config = <<>> /\ reader_pc = "idle" /\ writer_pc = "idle"
    /\ nreads = 0 /\ reads = <<>> /\ nrecv = 0
    /\ osc_out = <<>> /\ device = <<>> /\ accepted = <<>>
FrameIdle ==
    /\ all_bytes = [k \in 1..BUF_SIZE |-> 0]
    /\ num_bytes = 0 /\ frame_i = 0 /\ delivered = <<>> /\ frame_pc = "idle"

(***************************************************************************)
(* The engine: the state after Interpreter::new, one action per entry      *)
(* point.                                                                  *)
(***************************************************************************)
Init ==
    /\ \E cfg \in Configs : ctrls = Interpreter_new(cfg)
    /\ last = NoLast
    /\ hist = {}
    /\ presses = NoPresses
    /\ fb = [k \in 1..Len(ctrls) |-> None]
    /\ ExpandIdle
    /\ FrameIdle
    /\ MainIdle
    /\ NewIdle
    /\ LockIdle

\* the history after one more event
Hist(ev) ==
    IF ev.type = "ctrl" /\ (hist = {} \/ hist = {ev.num}) THEN {ev.num} ELSE {-1}

\* the press parities after one more event
Presses(ev) ==
    IF Hist(ev) = {-1} THEN NoPresses
    ELSE IF ev.val = 0 THEN presses
    ELSE 1 - presses

\* the latest feedback values after the response r
Feedback(r) ==
    IF r.by # 0 /\ IsSome(Unwrap(r.ret).ctrl)
    THEN [fb EXCEPT ![r.by] = Some(Unwrap(Unwrap(r.ret).ctrl)[2])]
    ELSE fb

Handle(ev, r) ==
    /\ ctrls' = r.ctrls
    /\ last' = [ev |-> ev, ret |-> r.ret, by |-> r.by]
    /\ hist' = Hist(ev)
    /\ presses' = Presses(ev)
    /\ fb' = Feedback(r)
    /\ UNCHANGED <<newVars, expandVars, frameVars, mainVars, lockVars>>

HandleCtrl ==
    \E num \in CtrlNums, val \in CtrlVals :
        Handle(CtrlEv(num, val), Interpreter_handle_ctrl(ctrls, num, val))

HandleOsc ==
    \E addr \in OscAddrs, args \in OscArgs :
        Handle(OscEv(addr, args), Interpreter_handle_osc(ctrls, [addr |-> addr, args |-> args]))

HandleMidi ==
    \E msg \in MidiMsgs :
        Handle(MidiEv(msg), Interpreter_handle_midi(ctrls, msg))

Next == HandleCtrl \/ HandleOsc \/ HandleMidi

Spec == Init /\ [][Next]_vars

(***************************************************************************)
(* The expander: a mapping drawn from the inputs, expand_iter applied.     *)
(***************************************************************************)
InitExpand ==
    /\ EngineIdle
    /\ FrameIdle
    /\ MainIdle
    /\ NewIdle
    /\ LockIdle
    /\ mapping \in RangeMappings \cup SingleMappings
    /\ expanded = NotExpanded
    /\ build \in {"debug", "release"}

ExpandIter ==
    /\ ~expanded.done
    /\ expanded' = [done |-> TRUE] @@ expand_iter(mapping, build)
    /\ UNCHANGED <<newVars, engineVars, frameVars, mainVars, lockVars, mapping, build>>

NextExpand == ExpandIter

SpecExpand == InitExpand /\ [][NextExpand]_vars

(***************************************************************************)
(* The frame parser: a read has filled the buffer, one action per          *)
(* iteration of the while loop.                                            *)
(***************************************************************************)
InitFrame ==
    /\ EngineIdle
    /\ ExpandIdle
    /\ MainIdle
    /\ NewIdle
    /\ LockIdle
    /\ num_bytes \in 0..BUF_SIZE
    /\ all_bytes \in ReadBuffers(num_bytes)
    /\ frame_i = 0
    /\ delivered = <<>>
    /\ frame_pc = "loop"

\* one iteration of the loop body
FrameIter ==
    /\ frame_pc = "loop"
    /\ FrameLoopCond(num_bytes, frame_i)
    /\ LET st == FrameStep(all_bytes, frame_i)
       IN  /\ frame_i' = st.i
           /\ delivered' = delivered \o st.pair
    /\ UNCHANGED <<newVars, engineVars, expandVars, mainVars, lockVars, all_bytes, num_bytes, frame_pc>>

\* the loop condition fails
FrameExit ==
    /\ frame_pc = "loop"
    /\ ~FrameLoopCond(num_bytes, frame_i)
    /\ frame_pc' = "done"
    /\ UNCHANGED <<newVars, engineVars, expandVars, mainVars, lockVars, all_bytes, num_bytes, frame_i, delivered>>

NextFrame == FrameIter \/ FrameExit

SpecFrame == InitFrame /\ [][NextFrame]_vars

\* the loop is straight-line code of the reader thread: an iteration that
\* can be made is made
SpecFrameFair == SpecFrame /\ WF_vars(NextFrame)

(***************************************************************************)
(* The program of main.rs after startup: the hardware-reader loop on the   *)
(* main thread and run_writer on the spawned thread, one action per loop   *)
(* iteration.                                                              *)
(***************************************************************************)
MaxReads == 2
MaxRecv == 3

MainConfigPlain ==
    <<MainMapping(<<"b", "{", "i", "}">>, Some(CtrlNumRange(1, 2)), Some(CtrlNumRange(21, 22)), "Button"),
      MainMapping(<<"k">>, Some(CtrlNumSingle(3)), Some(CtrlNumSingle(23)), "Relative")>>
MainConfigUnimplemented ==
    <<MainMapping(<<"f">>, Some(CtrlNumSingle(4)), Some(CtrlNumSingle(24)), "EightBit"),
      MainMapping(<<"b", "{", "i", "}">>, Some(CtrlNumRange(1, 2)), None, "Button"),
      MainMapping(<<"k">>, Some(CtrlNumSingle(3)), Some(CtrlNumSingle(23)), "Relative"),
      MainMapping(<<"p">>, None, Some(CtrlNumPair(5, 6)), "Button")>>
MainConfigs == {MainConfigPlain, MainConfigUnimplemented}

\* what handle.read_interrupt returns
ReadOk(bytes) == [ok |-> TRUE, err |-> "", bytes |-> bytes]
ReadErr(err) == [ok |-> FALSE, err |-> err, bytes |-> <<>>]
ReadResults ==
    {ReadErr("timeout"), ReadErr("io"),
     ReadOk(<<>>), ReadOk(<<SENTINEL, 1, 127>>), ReadOk(<<SENTINEL, 3, 65, 9, 0>>),
     ReadOk(<<SENTINEL, 4, 5>>), ReadOk(<<SENTINEL, 2, 0, 1>>)}

\* what sock.recv_from returns, decoded
Garbage == [kind |-> "garbage", msg |-> [addr |-> <<>>, args |-> <<>>]]
Bundle == [kind |-> "bundle", msg |-> [addr |-> <<>>, args |-> <<>>]]
Message(addr, args) == [kind |-> "message", msg |-> [addr |-> addr, args |-> args]]
RecvOk(packet) == [ok |-> TRUE, packet |-> packet]
RecvErr == [ok |-> FALSE, packet |-> Garbage]
RecvResults ==
    {RecvErr, RecvOk(Garbage), RecvOk(Bundle),
     RecvOk(Message(<<"/", "b", "0">>, <<Float(1, 1)>>)),
     RecvOk(Message(<<"/", "b", "1">>, <<Float(0, 1)>>)),
     RecvOk(Message(<<"/", "k">>, <<Float(1, 2)>>)),
     RecvOk(Message(<<"/", "z">>, <<Float(1, 1)>>)),
     RecvOk(Message(<<"/", "b", "0">>, <<>>)),
     RecvOk(Message(<<"/", "b", "0">>, <<OscInt(1)>>)),
     RecvOk(Message(<<"/", "f">>, <<Float(1, 1)>>))}

InitMain ==
    /\ EngineIdle
    /\ FrameIdle
    /\ LockIdle
    /\ NewIdle
    /\ mapping = NoMapping /\ expanded = NotExpanded
    /\ build \in {"debug", "release"}
    /\ config \in MainConfigs
    /\ reader_pc = "loop"
    /\ writer_pc = "bind"
    /\ nreads = 0 /\ reads = <<>> /\ nrecv = 0
    /\ osc_out = <<>> /\ device = <<>> /\ accepted = <<>>

\* the latest read timed out
TimedOut(rs) == rs # <<>> /\ ~rs[Len(rs)].ok /\ rs[Len(rs)].err = "timeout"

\* one iteration of the reader loop
ReaderRead ==
    /\ reader_pc = "loop"
    /\ nreads < MaxReads
    /\ \E res \in ReadResults, send_ok \in BOOLEAN :
          LET it == ReaderIteration(config, res, send_ok)
          IN  /\ reader_pc' = it.pc
              /\ osc_out' = osc_out \o it.sent
              /\ reads' = IF TimedOut(reads) THEN Append(reads, res) ELSE <<res>>
    /\ nreads' = nreads + 1
    /\ UNCHANGED <<newVars, engineVars, expandVars, frameVars, lockVars,
                   config, writer_pc, nrecv, device, accepted>>

\* run_writer: UdpSocket::bind(config.osc_in_addr)?
WriterBind ==
    /\ writer_pc = "bind"
    /\ \E bind_ok \in BOOLEAN : writer_pc' = IF bind_ok THEN "recv" ELSE "bind_failed"
    /\ UNCHANGED <<newVars, engineVars, expandVars, frameVars, lockVars,
                   config, reader_pc, nreads, reads, nrecv, osc_out, device, accepted>>

\* run_writer: one iteration of the loop
WriterRecv ==
    /\ writer_pc = "recv"
    /\ nrecv < MaxRecv
    /\ \E res \in RecvResults, write_ok \in BOOLEAN :
          LET it == WriterIteration(config, device, accepted, res, write_ok, build)
          IN  /\ writer_pc' = it.pc
              /\ device' = it.device
              /\ accepted' = it.accepted
    /\ nrecv' = nrecv + 1
    /\ UNCHANGED <<newVars, engineVars, expandVars, frameVars, lockVars,
                   config, reader_pc, nreads, reads, osc_out>>

NextMain == ReaderRead \/ WriterBind \/ WriterRecv

SpecMain == InitMain /\ [][NextMain]_vars

(***************************************************************************)
(* The engine shared by the hardware-reader thread and the                 *)
(* protocol-receiver thread.  The callers of the engine are not part of    *)
(* src/; the specification (section 5) has them serialise access "via a    *)
(* mutual-exclusion discipline equivalent to a single writer lock".  A     *)
(* thread takes the lock and reads the control state (Begin), then         *)
(* handles its event on what it read, writes the result back and releases  *)
(* the lock (End).                                                         *)
(***************************************************************************)
\* a lock that is never checked
LockFree_unchecked(l) == TRUE

\* the lock can be taken
LockFree(l) == l = None

\* the engine entry point for an event
EngineHandle(cs, ev) ==
    CASE ev.type = "ctrl" -> Interpreter_handle_ctrl(cs, ev.num, ev.val)
      [] ev.type = "osc"  -> Interpreter_handle_osc(cs, [addr |-> ev.addr, args |-> ev.args])
      [] ev.type = "midi" -> Interpreter_handle_midi(cs, ev.msg)

\* the events a thread hands to the engine
ThreadEvents(t) ==
    IF t = "reader"
    THEN {CtrlEv(num, val) : num \in CtrlNums, val \in CtrlVals}
    ELSE {OscEv(addr, args) : addr \in OscAddrs, args \in OscArgs}
         \cup {MidiEv(msg) : msg \in MidiMsgs}

LockedConfigs == {ConfigButtons, ConfigFader}

InitLocked ==
    /\ \E cfg \in LockedConfigs :
          /\ ctrls = Interpreter_new(cfg)
          /\ seq_ctrls = Interpreter_new(cfg)
    /\ last = NoLast
    /\ hist = {}
    /\ presses = NoPresses
    /\ fb = <<>>
    /\ ExpandIdle
    /\ FrameIdle
    /\ MainIdle
    /\ NewIdle
    /\ lock = None
    /\ held = [t \in Threads |-> None]
    /\ done = NotDone

\* a thread takes the lock for an event and reads the control state
Begin(t) ==
    /\ LockFree(lock)
    /\ held[t] = None
    /\ \E ev \in ThreadEvents(t) :
          held' = [held EXCEPT ![t] = Some([ev |-> ev, read |-> ctrls])]
    /\ lock' = Some(t)
    /\ UNCHANGED <<newVars, engineVars, expandVars, frameVars, mainVars, seq_ctrls, done>>

\* the thread's handle_* call returns: the control state is written back, the
\* lock is released
End(t) ==
    /\ held[t] # None
    /\ LET h == Unwrap(held[t])
           r == EngineHandle(h.read, h.ev)
           q == EngineHandle(seq_ctrls, h.ev)
       IN  /\ ctrls' = r.ctrls
           /\ seq_ctrls' = q.ctrls
           /\ done' = [thread |-> t, ret |-> r.ret, seq_ret |-> q.ret]
    /\ held' = [held EXCEPT ![t] = None]
    /\ lock' = None
    /\ UNCHANGED <<newVars, last, hist, presses, fb, expandVars, frameVars, mainVars>>

ReaderBegin == Begin("reader")
ReaderEnd == End("reader")
ReceiverBegin == Begin("receiver")
ReceiverEnd == End("receiver")

NextLocked == ReaderBegin \/ ReaderEnd \/ ReceiverBegin \/ ReceiverEnd

SpecLocked == InitLocked /\ [][NextLocked]_vars

(***************************************************************************)
(* Interpreter::new, one action per concrete mapping.                      *)
(***************************************************************************)
\* the longest configuration handed to Interpreter::new
MaxMappings == 3

\* concrete mappings of every control kind, with and without an input
\* sequence of two numbers
NewMappings ==
    { IMapping(<<"a">>, "OnOff", "Toggle", None, Some(1), Some(21), Some(MidiSpec(0, "Cc", 10))),
      IMapping(<<"b">>, "OnOff", "Raw", Some(<<1, 2>>), Some(1), None, None),
      IMapping(<<"c">>, "EightBit", "", Some(<<1, 2>>), None, None, Some(MidiSpec(0, "Cc", 10))),
      IMapping(<<"d">>, "EightBit", "", Some(<<1>>), Some(1), None, None),
      IMapping(<<"e">>, "EightBit", "", None, Some(1), Some(21), None),
      IMapping(<<"f">>, "Relative", "Accumulate", Some(<<1, 2>>), Some(1), Some(21), None) }

RECURSIVE SeqsUpTo(_, _)
SeqsUpTo(S, n) ==
    IF n = 0 THEN {<<>>}
    ELSE LET shorter == SeqsUpTo(S, n - 1)
         IN  shorter \cup {Append(q, x) : q \in shorter, x \in S}

InitNew ==
    /\ new_config \in SeqsUpTo(NewMappings, MaxMappings)
    /\ new_i = 0
    /\ ctrls = <<>> /\ last = NoLast /\ hist = {} /\ presses = NoPresses /\ fb = <<>>
    /\ ExpandIdle
    /\ FrameIdle
    /\ MainIdle
    /\ LockIdle

\* one iteration of `for mapping in abstract_mapping.expand_iter()`
NewIter ==
    /\ new_i < Len(new_config)
    /\ LET r == Interpreter_new_step(ctrls, new_config, new_i)
       IN  ctrls' = r.ctrls /\ new_i' = r.i
    /\ UNCHANGED <<last, hist, presses, fb, expandVars, frameVars, mainVars, lockVars, new_config>>

NextNew == NewIter

SpecNew == InitNew /\ [][NextNew]_vars

(***************************************************************************)
(* Claims                                                                  *)
(***************************************************************************)
NonEmpty(ret) == IsSome(ret) /\ ~IsEmpty(Unwrap(ret))
Idx == 1..Len(ctrls)

\* C1 (as amended): for every hardware, OSC or MIDI event the engine consults
\* the instances in construction order and returns the response of the first
\* instance that does not decline the event, even when that response is empty;
\* the instances before it declined and are unchanged, the instances after it
\* are not consulted (unchanged), and if every instance declines the engine
\* returns nothing and no instance changes.
C1_FirstResponseWins ==
    [][LET ev == last'.ev
           k == last'.by
       IN  /\ Len(ctrls') = Len(ctrls)
           /\ k \in 0..Len(ctrls)
           /\ \A j \in Idx : (k = 0 \/ j < k) =>
                  /\ Dispatch(ctrls[j], ev).ret = None
                  /\ ctrls'[j] = ctrls[j]
           /\ k = 0 => last'.ret = None
           /\ k # 0 =>
                  /\ IsSome(last'.ret)
                  /\ last'.ret = Dispatch(ctrls[k], ev).ret
                  /\ ctrls'[k] = Dispatch(ctrls[k], ev).self
                  /\ \A j \in Idx : j > k => ctrls'[j] = ctrls[j]
      ]_vars

\* C1 witness: the first instance answered a hardware event with an empty
\* response although a later instance has a non-empty response to it.
C1_Witness ==
    /\ last.ev.type = "ctrl"
    /\ last.by = 1
    /\ IsSome(last.ret) /\ IsEmpty(Unwrap(last.ret))
    /\ \E j \in Idx : j > 1 /\ NonEmpty(Dispatch(ctrls[j], last.ev).ret)

\* C1 (as claimed): the engine returns the first non-empty response: whenever
\* some instance has a non-empty response to the event, the engine returns the
\* response of the first such instance.
C1_FirstNonEmptyWins ==
    [][LET ev == last'.ev
           answering == {j \in Idx : NonEmpty(Dispatch(ctrls[j], ev).ret)}
       IN  answering # {} =>
               /\ NonEmpty(last'.ret)
               /\ last'.by \in answering
               /\ \A j \in answering : last'.by <= j
      ]_vars

\* the hardware numbers an instance answers to
InNums(c) ==
    IF c.logic = "EightBit" THEN {c.ctrl_in_hi_num, c.ctrl_in_lo_num}
    ELSE IF IsSome(c.ctrl_in_num) THEN {Unwrap(c.ctrl_in_num)} ELSE {}

\* the stored state of a freshly constructed instance
InitState(c) ==
    CASE c.logic = "OnOff" -> FALSE
      [] c.logic = "EightBit" -> <<0, 0>>
      [] c.logic = "Relative" -> 0

\* C2: when two instances are configured with the same input number n, then
\* after every sequence of hardware events on n the later instance's stored
\* state is still its initial value, and every response came from the
\* earliest instance configured with n.
C2_EarlierInstanceOnly ==
    \A n \in CtrlNums : \A i, j \in Idx :
        (hist = {n} /\ i < j /\ n \in InNums(ctrls[i]) /\ n \in InNums(ctrls[j])) =>
            /\ ctrls[j].state = InitState(ctrls[j])
            /\ last.by \in 1..i
            /\ n \in InNums(ctrls[last.by])
            /\ IsSome(last.ret)

\* C2 witness: after hardware events on a shared number only, the earlier
\* instance has left its initial state and the engine has just returned an
\* empty response.
C2_Witness ==
    \E n \in CtrlNums : \E i, j \in Idx :
        /\ hist = {n} /\ i < j /\ n \in InNums(ctrls[i]) /\ n \in InNums(ctrls[j])
        /\ ctrls[i].state # InitState(ctrls[i])
        /\ IsSome(last.ret) /\ IsEmpty(Unwrap(last.ret))

\* an OnOff instance in Momentary mode with input number, output number and a Cc binding
IsMomentaryCc(c) ==
    /\ c.logic = "OnOff" /\ c.mode = "Momentary"
    /\ IsSome(c.ctrl_in_num) /\ IsSome(c.ctrl_out_num)
    /\ IsSome(c.midi) /\ Unwrap(c.midi).kind = "Cc"

\* C3: for an OnOff control in Momentary mode with output number and Cc
\* binding, in every reachable stored state and for b in {on, off}: a hardware
\* event with pressed = b, an OSC message to its address with 1.0 / 0.0 and a
\* matching Control-Change with 0x7F / 0x00 are all accepted, leave the same
\* stored state (b) and carry the same hardware-feedback part.
C3_DirectionsAgree ==
    \A k \in Idx : IsMomentaryCc(ctrls[k]) =>
        \A b \in BOOLEAN :
            LET c == ctrls[k]
                m == Unwrap(c.midi)
                hw == OnOff_handle_ctrl(c, Unwrap(c.ctrl_in_num), IF b THEN 127 ELSE 0)
                osc == OnOff_handle_osc(c, [addr |-> c.osc_addr,
                                            args |-> <<Float(IF b THEN 1 ELSE 0, 1)>>])
                midi == OnOff_handle_midi(c, <<176 + m.channel, m.num, IF b THEN 127 ELSE 0>>)
            IN  /\ IsSome(hw.ret) /\ IsSome(osc.ret) /\ IsSome(midi.ret)
                /\ hw.self.state = b /\ osc.self.state = b /\ midi.self.state = b
                /\ Unwrap(hw.ret).ctrl = Unwrap(osc.ret).ctrl
                /\ Unwrap(osc.ret).ctrl = Unwrap(midi.ret).ctrl

\* C3 witness: such a control was switched on by a Control-Change and answered
\* with hardware feedback; it is now in the state in which a press, an OSC 1.0
\* and a Control-Change 0x7F all have to yield no feedback.
C3_Witness ==
    \E k \in Idx :
        /\ IsMomentaryCc(ctrls[k])
        /\ last.ev.type = "midi" /\ last.by = k
        /\ ctrls[k].state = TRUE
        /\ Unwrap(last.ret).ctrl = Some(<<Unwrap(ctrls[k].ctrl_out_num), 127>>)

\* C4: for an OnOff control in Toggle mode every release event (value 0) is
\* answered with an empty response and leaves the stored state (and every
\* other instance) unchanged, so any number of consecutive releases after the
\* last press emit nothing.
C4_ToggleReleaseSilent ==
    [][\A k \in Idx :
          (/\ last'.ev.type = "ctrl" /\ last'.by = k /\ last'.ev.val = 0
           /\ ctrls[k].logic = "OnOff" /\ ctrls[k].mode = "Toggle") =>
              /\ last'.ret = Some(Response_new)
              /\ ctrls' = ctrls
      ]_vars

\* C4 witness: a toggle control that is on has just answered a release.
C4_Witness ==
    \E k \in Idx :
        /\ last.ev.type = "ctrl" /\ last.by = k /\ last.ev.val = 0
        /\ ctrls[k].logic = "OnOff" /\ ctrls[k].mode = "Toggle"
        /\ ctrls[k].state = TRUE

\* the response an OnOff control emits for state s, as the claims describe it:
\* OSC always, MIDI if bound, hardware feedback if an output number is configured
EmitsFor(c, r, s) ==
    /\ IsSome(r.osc)
    /\ Unwrap(r.osc).addr = c.osc_addr
    /\ Len(Unwrap(r.osc).args) = 1
    /\ FloatEq(Unwrap(r.osc).args[1], Float(IF s THEN 1 ELSE 0, 1))
    /\ IsSome(r.midi) <=> IsSome(c.midi)
    /\ IsSome(r.midi) => Unwrap(r.midi)[3] = (IF s THEN 127 ELSE 0)
    /\ IsSome(r.ctrl) <=> IsSome(c.ctrl_out_num)
    /\ IsSome(r.ctrl) => Unwrap(r.ctrl) = <<Unwrap(c.ctrl_out_num), IF s THEN 127 ELSE 0>>

\* C5: for an OnOff control in Momentary mode every hardware event sets the
\* stored state to pressed; the response is empty when pressed equals the
\* previous stored state and otherwise carries OSC, MIDI (if bound) and
\* hardware feedback (if an output number is configured) for the new state.
\* A press that follows a press is answered with an empty response, and the
\* first press after construction with a non-empty one.
C5_MomentaryMirrors ==
    [][\A k \in Idx :
          (/\ last'.ev.type = "ctrl" /\ last'.by = k
           /\ ctrls[k].logic = "OnOff" /\ ctrls[k].mode = "Momentary") =>
              LET pressed == last'.ev.val # 0
                  r == Unwrap(last'.ret)
              IN  /\ ctrls'[k].state = pressed
                  /\ pressed = ctrls[k].state => IsEmpty(r)
                  /\ pressed # ctrls[k].state => EmitsFor(ctrls[k], r, pressed)
                  /\ (pressed /\ last.ev.type = "ctrl" /\ last.by = k /\ last.ev.val # 0)
                        => IsEmpty(r)
                  /\ (pressed /\ hist = {}) => ~IsEmpty(r)
      ]_vars

\* C5 witness: in a run of hardware events only, a momentary control that is
\* on has just answered a press with an empty response (the second press).
C5_Witness ==
    \E k \in Idx :
        /\ last.ev.type = "ctrl" /\ last.by = k /\ last.ev.val # 0
        /\ ctrls[k].logic = "OnOff" /\ ctrls[k].mode = "Momentary"
        /\ hist # {-1}
        /\ ctrls[k].state = TRUE
        /\ IsEmpty(Unwrap(last.ret))

\* C6: for an EightBit control, a hardware event on hi_number stores the
\* value in slot 0 and is answered with an empty response; a hardware event on
\* lo_number stores the value in slot 1 and is answered with an OSC message of
\* value v8/255, v8 = (slot0 << 1) | (slot1 != 0 ? 1 : 0) in eight bits, from
\* the most recently stored hi value, with no hardware feedback and, for MIDI
\* kind Cc, the Control-Change [0xB0 | channel, number, v8 >> 1].
C6_EightBitAssembly ==
    [][\A k \in Idx :
          (/\ last'.ev.type = "ctrl" /\ last'.by = k
           /\ ctrls[k].logic = "EightBit"
           /\ ctrls[k].ctrl_in_hi_num # ctrls[k].ctrl_in_lo_num) =>
              LET c == ctrls[k]
                  val == last'.ev.val
                  r == Unwrap(last'.ret)
                  v8 == ((c.state[1] * 2) % 256) + (IF val # 0 THEN 1 ELSE 0)
              IN  /\ last'.ev.num = c.ctrl_in_hi_num =>
                        /\ ctrls'[k].state = <<val, c.state[2]>>
                        /\ IsEmpty(r)
                  /\ last'.ev.num = c.ctrl_in_lo_num =>
                        /\ ctrls'[k].state = <<c.state[1], val>>
                        /\ r.ctrl = None
                        /\ IsSome(r.osc)
                        /\ Unwrap(r.osc).addr = c.osc_addr
                        /\ Len(Unwrap(r.osc).args) = 1
                        /\ FloatEq(Unwrap(r.osc).args[1], Float(v8, 255))
                        /\ (IsSome(c.midi) /\ Unwrap(c.midi).kind = "Cc") =>
                              r.midi = Some(<<176 + Unwrap(c.midi).channel,
                                              Unwrap(c.midi).num, v8 \div 2>>)
      ]_vars

\* C6 witness: hi = 0x40 was stored, then lo = 0x01 arrived and was answered
\* with the OSC value 0x81/255.
C6_Witness ==
    \E k \in Idx :
        /\ ctrls[k].logic = "EightBit"
        /\ last.ev.type = "ctrl" /\ last.by = k /\ last.ev.num = ctrls[k].ctrl_in_lo_num
        /\ ctrls[k].state = <<64, 1>>
        /\ FloatEq(Unwrap(Unwrap(last.ret).osc).args[1], Float(129, 255))

\* the signed delta of a raw byte as the specification decodes it
SpecDelta(val) == IF val < 64 THEN val ELSE val - 128
\* clamp(x, 0, 127)
Clamp7(x) == IF x < 0 THEN 0 ELSE IF x > 127 THEN 127 ELSE x

\* C7: for a Relative control in Accumulate mode every hardware event leaves
\* the stored state at clamp(previous state + delta, 0, 127), which is within
\* 0..127 (no wrap below 0 or above 127); a positive delta at state 127 and a
\* negative delta at state 0 are answered with an empty response.
C7_AccumulateClamps ==
    [][\A k \in Idx :
          (/\ last'.ev.type = "ctrl" /\ last'.by = k
           /\ ctrls[k].logic = "Relative" /\ ctrls[k].mode = "Accumulate") =>
              LET delta == SpecDelta(last'.ev.val)
                  old == ctrls[k].state
              IN  /\ ctrls'[k].state = Clamp7(old + delta)
                  /\ ctrls'[k].state \in 0..127
                  /\ (old = 127 /\ delta > 0) => last'.ret = Some(Response_new)
                  /\ (old = 0 /\ delta < 0) => last'.ret = Some(Response_new)
      ]_vars

\* C7 witness: a positive delta has just been applied at state 127 in a run of
\* hardware events only, and was answered with an empty response.
C7_Witness ==
    \E k \in Idx :
        /\ ctrls[k].logic = "Relative" /\ ctrls[k].mode = "Accumulate"
        /\ last.ev.type = "ctrl" /\ last.by = k /\ last.ev.val = 1
        /\ hist # {-1}
        /\ ctrls[k].state = 127
        /\ last.ret = Some(Response_new)

\* the LED segment of a 7-bit value as the specification defines it
Segment(v) == IF v < 7 THEN 0 ELSE ((v - 7) \div 11) * 11 + 7

\* C8: for a Relative control with an output number, a change of the stored
\* state (by a hardware event in Accumulate mode, an OSC or a MIDI event)
\* carries hardware feedback exactly if segment(new) differs from
\* segment(old), and then it is [output number, segment(new)]; the hardware
\* step 5 -> 6 carries OSC (and MIDI if bound to Cc) but no hardware feedback,
\* the hardware step 6 -> 7 carries the hardware feedback value 7.
C8_SegmentSuppression ==
    [][\A k \in Idx :
          (/\ last'.by = k
           /\ ctrls[k].logic = "Relative" /\ IsSome(ctrls[k].ctrl_out_num)
           /\ ctrls'[k].state # ctrls[k].state) =>
              LET c == ctrls[k]
                  old == c.state
                  new == ctrls'[k].state
                  r == Unwrap(last'.ret)
              IN  /\ IsSome(r.ctrl) <=> Segment(new) # Segment(old)
                  /\ IsSome(r.ctrl) => r.ctrl = Some(<<Unwrap(c.ctrl_out_num), Segment(new)>>)
                  /\ (last'.ev.type = "ctrl" /\ old = 5 /\ new = 6) =>
                        /\ r.ctrl = None
                        /\ IsSome(r.osc)
                        /\ (IsSome(c.midi) /\ Unwrap(c.midi).kind = "Cc") => IsSome(r.midi)
                  /\ (last'.ev.type = "ctrl" /\ old = 6 /\ new = 7) =>
                        r.ctrl = Some(<<Unwrap(c.ctrl_out_num), 7>>)
      ]_vars

\* C8 witness: the hardware step 5 -> 6 of an encoder with LED ring has just
\* been answered with OSC but without hardware feedback.
C8_Witness ==
    \E k \in Idx :
        /\ ctrls[k].logic = "Relative" /\ IsSome(ctrls[k].ctrl_out_num)
        /\ last.ev.type = "ctrl" /\ last.by = k /\ last.ev.val = 1
        /\ ctrls[k].state = 6
        /\ IsSome(Unwrap(last.ret).osc)
        /\ Unwrap(last.ret).ctrl = None

\* an OSC event with the single argument 1.0
IsOscOne(ev) ==
    /\ ev.type = "osc" /\ Len(ev.args) >= 1
    /\ ev.args[1].type = "Float" /\ FloatEq(ev.args[1], Float(1, 1))

\* C9 (as amended): an OSC message with argument 1.0 that reaches an OnOff
\* control with an output number (sent to its address, no earlier instance
\* claiming it) sets the stored state to true and is answered without OSC and
\* MIDI part; the hardware-feedback part is [output number, 0x7F] if the
\* stored state was false before, and absent if it was already true.
C9_OscOnFeedbackOnChange ==
    [][\A k \in Idx :
          (/\ IsOscOne(last'.ev) /\ last'.by = k
           /\ ctrls[k].logic = "OnOff") =>
              LET c == ctrls[k]
                  r == Unwrap(last'.ret)
              IN  /\ last'.ev.addr = c.osc_addr
                  /\ IsSome(c.ctrl_out_num)
                  /\ ctrls'[k].state = TRUE
                  /\ r.osc = None
                  /\ r.midi = None
                  /\ r.ctrl = (IF c.state THEN None
                               ELSE Some(<<Unwrap(c.ctrl_out_num), 127>>))
      ]_vars

\* C9 witness: an OnOff control that is on has just answered an OSC 1.0 with
\* the hardware feedback [output number, 0x7F].
C9_Witness ==
    \E k \in Idx :
        /\ ctrls[k].logic = "OnOff"
        /\ IsOscOne(last.ev) /\ last.by = k
        /\ ctrls[k].state = TRUE
        /\ Unwrap(last.ret).ctrl = Some(<<Unwrap(ctrls[k].ctrl_out_num), 127>>)

\* C9 (as claimed): an OSC message with argument 1.0 that reaches an OnOff
\* control sets the stored state to true and is answered with the
\* hardware-feedback part [output number, 0x7F] and no OSC part.
C9_OscOnAlwaysFeedback ==
    [][\A k \in Idx :
          (/\ IsOscOne(last'.ev) /\ last'.by = k
           /\ ctrls[k].logic = "OnOff") =>
              /\ ctrls'[k].state = TRUE
              /\ Unwrap(last'.ret).osc = None
              /\ Unwrap(last'.ret).ctrl = Some(<<Unwrap(ctrls[k].ctrl_out_num), 127>>)
      ]_vars

\* the ranges of a Range numbering are well formed: at least one is present,
\* each has lo <= hi and a size that fits a byte, and all have the same size
WellFormed(n) ==
    /\ PresentRanges(n) # <<>>
    /\ \A j \in 1..Len(PresentRanges(n)) :
          LET r == PresentRanges(n)[j]
          IN  /\ r[1] <= r[2]
              /\ r[2] - r[1] + 1 <= 255
              /\ r[2] - r[1] = PresentRanges(n)[1][2] - PresentRanges(n)[1][1]
\* the number N of controls of a well-formed Range
RangeSize(n) == PresentRanges(n)[1][2] - PresentRanges(n)[1][1] + 1

\* the value of a string of decimal digits, -1 if it is not one
RECURSIVE DecimalValue(_)
DecimalValue(str) ==
    LET digit(ch) == CASE ch = "0" -> 0 [] ch = "1" -> 1 [] ch = "2" -> 2 [] ch = "3" -> 3
                       [] ch = "4" -> 4 [] ch = "5" -> 5 [] ch = "6" -> 6 [] ch = "7" -> 7
                       [] ch = "8" -> 8 [] ch = "9" -> 9 [] OTHER -> -1
    IN  IF str = <<>> THEN -1
        ELSE IF digit(str[Len(str)]) = -1 THEN -1
        ELSE IF Len(str) = 1 THEN digit(str[1])
        ELSE LET rest == DecimalValue(SubSeq(str, 1, Len(str) - 1))
             IN  IF rest = -1 THEN -1 ELSE 10 * rest + digit(str[Len(str)])
\* str is i in decimal: digits only, no leading zero, value i
IsDecimalOf(str, i) ==
    /\ DecimalValue(str) = i
    /\ Len(str) > 1 => str[1] # "0"
\* the positions at which the placeholder occurs in name
Occurrences(name) ==
    {p \in 1..Len(name) :
        p + 2 <= Len(name) /\ SubSeq(name, p, p + 2) = <<"{", "i", "}">>}
\* out is name with every placeholder, left to right, replaced by i in decimal
RECURSIVE NameHasIndex(_, _, _)
NameHasIndex(name, out, i) ==
    IF Occurrences(name) = {} THEN out = name
    ELSE LET p == CHOOSE q \in Occurrences(name) : \A q2 \in Occurrences(name) : q <= q2
         IN  \E L \in 1..3 :
                /\ Len(out) >= p - 1 + L
                /\ SubSeq(out, 1, p - 1) = SubSeq(name, 1, p - 1)
                /\ IsDecimalOf(SubSeq(out, p, p - 1 + L), i)
                /\ NameHasIndex(SubSeq(name, p + 3, Len(name)),
                                SubSeq(out, p + L, Len(out)), i)
\* the field of the i-th mapping is the low end of the template's range plus i
FieldShifted(range, field, i) ==
    IF IsSome(range) THEN field = Some(Unwrap(range)[1] + i) ELSE field = None

\* C10: expanding a well-formed Range of N controls yields, in either build,
\* exactly N concrete (Single) mappings in ascending index order; in the i-th
\* (i in [0,N)) every present numeric field (input number, output number,
\* MIDI number) is the low end of the template's range plus i, an absent one
\* stays absent, there is no input sequence, the name has every placeholder
\* replaced by i in decimal, and control kind and MIDI kind are the
\* template's.
C10_RangeExpansion ==
    (expanded.done /\ mapping.numbering.tag = "Range" /\ WellFormed(mapping.numbering)) =>
        /\ ~expanded.panic
        /\ Len(expanded.mappings) = RangeSize(mapping.numbering)
        /\ \A i \in 0..(RangeSize(mapping.numbering) - 1) :
              LET e == expanded.mappings[i + 1]
              IN  /\ e.numbering.tag = "Single"
                  /\ e.numbering.ctrl_in_sequence = None
                  /\ FieldShifted(mapping.numbering.ctrl_in, e.numbering.ctrl_in, i)
                  /\ FieldShifted(mapping.numbering.ctrl_out, e.numbering.ctrl_out, i)
                  /\ FieldShifted(mapping.numbering.midi, e.numbering.midi, i)
                  /\ NameHasIndex(mapping.name, e.name, i)
                  /\ e.ctrl_kind = mapping.ctrl_kind
                  /\ e.midi_kind = mapping.midi_kind

\* C10 witness: a Range of more than ten controls with input and output
\* numbers has been expanded; the mapping of index 10 is named "k10" and
\* carries the input number 13 and the output number 30.
C10_Witness ==
    /\ expanded.done /\ ~expanded.panic
    /\ mapping.numbering.tag = "Range"
    /\ WellFormed(mapping.numbering)
    /\ mapping.name = <<"k", "{", "i", "}">>
    /\ Len(expanded.mappings) >= 11
    /\ expanded.mappings[11].name = <<"k", "1", "0">>
    /\ expanded.mappings[11].numbering.ctrl_in = Some(13)
    /\ expanded.mappings[11].numbering.ctrl_out = Some(30)

\* C11 (as claimed): expanding a Single mapping yields exactly one concrete
\* mapping, the one of index 0: its numbering and kinds are the template's and
\* its name is the template's name with every placeholder replaced by 0.
C11_SingleSubstituted ==
    (expanded.done /\ mapping.numbering.tag = "Single") =>
        /\ ~expanded.panic
        /\ Len(expanded.mappings) = 1
        /\ expanded.mappings[1].numbering = mapping.numbering
        /\ expanded.mappings[1].ctrl_kind = mapping.ctrl_kind
        /\ expanded.mappings[1].midi_kind = mapping.midi_kind
        /\ NameHasIndex(mapping.name, expanded.mappings[1].name, 0)

\* C12: an inbound protocol event is never re-broadcast: whatever control
\* answers an OSC or a MIDI event, in whatever state, the response has no OSC
\* part and no MIDI part (at most the hardware-feedback part).
C12_NoRebroadcast ==
    (last.ev.type \in {"osc", "midi"} /\ IsSome(last.ret)) =>
        /\ Unwrap(last.ret).osc = None
        /\ Unwrap(last.ret).midi = None

\* C12 witness: a MIDI event has just been answered by an encoder with
\* hardware feedback.
C12_Witness ==
    /\ last.ev.type = "midi" /\ last.by \in Idx
    /\ ctrls[last.by].logic = "Relative"
    /\ IsSome(Unwrap(last.ret).ctrl)

\* C13: after startup every write to the out endpoint is made by the writer
\* thread, each write carries one complete feedback message ([number, value]),
\* and the k-th write is the k-th message accepted for writing: the messages
\* reach the device in the order of their acceptance, whatever the reader
\* does in between.
C13_WriterSerialisesFifo ==
    /\ Len(device) <= Len(accepted)
    /\ \A k \in 1..Len(device) :
          /\ device[k].by = "writer"
          /\ Len(device[k].data) = 2
          /\ device[k].data = accepted[k]

\* C13 witness: two different feedback messages have been written while the
\* reader sent OSC messages of its own.
C13_Witness ==
    /\ Len(device) >= 2
    /\ device[1].data # device[2].data
    /\ Len(osc_out) >= 1

\* C14: no two events are handled by the engine at the same time (at most
\* one thread is inside a handle_* call), and whatever the interleaving of
\* the hardware-reader and the protocol-receiver thread, the control states
\* and every response equal those of handling the completed events one after
\* another in the order of their completion.
C14_HandlingIsSerial ==
    /\ \A t, u \in Threads : (held[t] # None /\ held[u] # None) => t = u
    /\ ctrls = seq_ctrls
    /\ done.ret = done.seq_ret

\* C14 witness: the receiver has completed an event that was answered with
\* hardware feedback, and the reader has since taken the lock for an event
\* of its own.
C14_Witness ==
    /\ done.thread = "receiver"
    /\ IsSome(done.ret) /\ IsSome(Unwrap(done.ret).ctrl)
    /\ held["reader"] # None
    /\ lock = Some("reader")

\* C15: an event (hardware, OSC or MIDI) that no control instance claims is
\* dropped: the engine returns no response (so there is nothing to send to
\* OSC, MIDI or the device), no instance answered, and no control's stored
\* state changes, so that the events that follow are handled from the state
\* the engine was in before.
C15_UnmatchedDropped ==
    [][(last'.ret = None \/ last'.by = 0) =>
          /\ last'.ret = None
          /\ last'.by = 0
          /\ ctrls' = ctrls
      ]_vars

\* C15 witness: a hardware event has just been dropped by an engine in which
\* earlier events have left a control in a state other than its initial one.
C15_Witness ==
    /\ last.ev.type = "ctrl" /\ last.ret = None
    /\ \E k \in Idx : ctrls[k].state # InitState(ctrls[k])

\* a protocol event that is malformed: an OSC message whose first argument is
\* missing or not a float, a MIDI message whose length is not 3
Malformed(ev) ==
    \/ ev.type = "osc" /\ (Len(ev.args) < 1 \/ ev.args[1].type # "Float")
    \/ ev.type = "midi" /\ Len(ev.msg) # 3

\* C16: malformed protocol input is treated like an unmatched event: an OSC
\* message whose first argument is missing or not a float, and a MIDI message
\* whose length is not 3, are declined by every control (the engine returns
\* no response, so no feedback is produced) and change no stored state.
C16_MalformedDeclined ==
    [][Malformed(last'.ev) =>
          /\ last'.ret = None
          /\ last'.by = 0
          /\ ctrls' = ctrls
      ]_vars

\* C16 witness: an OSC message without a float argument, sent to the address
\* of a control that has hardware feedback and is not in its initial state,
\* has just been declined.
C16_Witness ==
    /\ last.ev.type = "osc" /\ Malformed(last.ev)
    /\ last.ret = None
    /\ \E k \in Idx :
          /\ ctrls[k].osc_addr = last.ev.addr
          /\ ctrls[k].logic \in {"OnOff", "Relative"}
          /\ IsSome(ctrls[k].ctrl_out_num)
          /\ ctrls[k].state # InitState(ctrls[k])

\* run_writer has ended
WriterEnded ==
    writer_pc \in {"bind_failed", "recv_failed", "decode_failed", "write_failed", "panicked"}

\* C17: a transport failure met by the writer thread (a failed bind or
\* receive on its socket, or a failed device write, after which the accepted
\* message is missing on the device) ends run_writer; an ended writer makes
\* no further receive and no further write (no retry, no reconnect); the step
\* that ends it leaves the reader loop as it was, and the reader goes on
\* reading afterwards.
C17_WriterFailureIsLocal ==
    /\ [](Len(accepted) > Len(device) => writer_pc = "write_failed")
    /\ []((WriterEnded /\ reader_pc = "loop" /\ nreads < MaxReads) => ENABLED ReaderRead)
    /\ [][/\ WriterEnded =>
                /\ writer_pc' = writer_pc
                /\ nrecv' = nrecv /\ device' = device /\ accepted' = accepted
          /\ writer_pc' # writer_pc =>
                /\ reader_pc' = reader_pc /\ nreads' = nreads /\ osc_out' = osc_out
          /\ (nrecv' # nrecv /\ accepted' = accepted /\ writer_pc' = "recv_failed") =>
                device' = device
         ]_vars

\* C17 witness: the writer has ended on a failed device write, and the reader
\* loop is running and has sent OSC messages.
C17_Witness ==
    /\ writer_pc = "write_failed"
    /\ Len(accepted) > Len(device)
    /\ reader_pc = "loop"
    /\ nreads >= 1 /\ Len(osc_out) >= 1

\* the bytes of a sequence of pairs, in order
RECURSIVE Flatten(_)
Flatten(pairs) == IF pairs = <<>> THEN <<>> ELSE Head(pairs) \o Flatten(Tail(pairs))
\* the first n bytes of the buffer without the positions in R, from position k on
RECURSIVE Without(_, _, _, _)
Without(bytes, n, R, k) ==
    IF k > n THEN <<>>
    ELSE (IF k \in R THEN <<>> ELSE <<bytes[k]>>) \o Without(bytes, n, R, k + 1)
\* the delivered pairs are the bytes read, in buffer order, without the
\* positions in R
DeliveredAllBut(R) == Flatten(delivered) = Without(all_bytes, num_bytes, R, 1)
\* sets of positions of the bytes read that hold a sentinel
SentinelSets == SUBSET {p \in 1..num_bytes : all_bytes[p] = SENTINEL}
\* the last byte read, or nothing
TrailingSets == {{}} \cup {{p} : p \in {num_bytes} \ {0}}

\* C18 (as amended): when the loop has left a read buffer, no delivered pair
\* has the sentinel 0xB0 as its control number (a sentinel where a pair would
\* start is skipped), and the delivered pairs are, in buffer order, all bytes
\* read other than skipped sentinels and, possibly, one last byte left
\* without a partner.
C18_PairsInBufferOrder ==
    frame_pc = "done" =>
        /\ \A k \in 1..Len(delivered) : Len(delivered[k]) = 2 /\ delivered[k][1] # SENTINEL
        /\ \E R \in SentinelSets, T \in TrailingSets : DeliveredAllBut(R \cup T)

\* C18 witness: a buffer that starts with the sentinel has been parsed into
\* two pairs, and one byte was left over.
C18_Witness ==
    /\ frame_pc = "done"
    /\ all_bytes[1] = SENTINEL
    /\ Len(delivered) = 2
    /\ frame_i = num_bytes - 1
    /\ all_bytes[num_bytes] # SENTINEL

\* C18 (as claimed): when the loop has left a read buffer, no delivered pair
\* has the sentinel as its control number, and the delivered pairs are, in
\* buffer order, all bytes read other than skipped sentinels.
C18_AllOtherBytesDelivered ==
    frame_pc = "done" =>
        /\ \A k \in 1..Len(delivered) : Len(delivered[k]) = 2 /\ delivered[k][1] # SENTINEL
        /\ \E R \in SentinelSets : DeliveredAllBut(R)

\* C19 (as claimed): the stored state of a Relative control is a 7-bit
\* value: it is in 0..127 in every reachable state, after any sequence of
\* hardware, OSC and MIDI events.
C19_RelativeState7Bit ==
    \A k \in Idx : ctrls[k].logic = "Relative" => ctrls[k].state \in 0..127

\* C20: for an OnOff control in Raw mode, every hardware event on its input
\* number is answered with the OSC message [address, 1.0 if pressed else 0.0]
\* and, if a MIDI binding is configured, the MIDI message for pressed,
\* whether or not the value repeats; the answer never has a
\* hardware-feedback part, and the stored state is left unchanged.
C20_RawUnconditional ==
    [][\A k \in Idx :
          (/\ last'.ev.type = "ctrl" /\ last'.by = k
           /\ ctrls[k].logic = "OnOff" /\ ctrls[k].mode = "Raw") =>
              LET c == ctrls[k]
                  pressed == last'.ev.val # 0
                  r == Unwrap(last'.ret)
              IN  /\ last'.ev.num = Unwrap(c.ctrl_in_num)
                  /\ r.osc = Some(OscResponse(c.osc_addr, <<Float(IF pressed THEN 1 ELSE 0, 1)>>))
                  /\ IsSome(c.midi) <=> IsSome(r.midi)
                  /\ (IsSome(c.midi) /\ Unwrap(c.midi).kind = "NoteOnOff") =>
                        r.midi = Some(IF pressed
                                      THEN <<144 + Unwrap(c.midi).channel, Unwrap(c.midi).num, 127>>
                                      ELSE <<128 + Unwrap(c.midi).channel, Unwrap(c.midi).num, 0>>)
                  /\ (IsSome(c.midi) /\ Unwrap(c.midi).kind = "Cc") =>
                        r.midi = Some(<<176 + Unwrap(c.midi).channel, Unwrap(c.midi).num,
                                        IF pressed THEN 127 ELSE 0>>)
                  /\ r.ctrl = None
                  /\ ctrls'[k].state = c.state
      ]_vars

\* C20 witness: a Raw control with an output number, whose stored state an
\* OSC or MIDI event has set to on, has answered a press with OSC and MIDI
\* and without hardware feedback.
C20_Witness ==
    \E k \in Idx :
        /\ ctrls[k].logic = "OnOff" /\ ctrls[k].mode = "Raw"
        /\ IsSome(ctrls[k].ctrl_out_num)
        /\ last.ev.type = "ctrl" /\ last.by = k /\ last.ev.val = 127
        /\ IsSome(Unwrap(last.ret).osc) /\ IsSome(Unwrap(last.ret).midi)
        /\ Unwrap(last.ret).ctrl = None
        /\ ctrls[k].state = TRUE

\* a Toggle control that every hardware event on its input number reaches
IsReachedToggle(k) ==
    /\ ctrls[k].logic = "OnOff" /\ ctrls[k].mode = "Toggle"
    /\ IsSome(ctrls[k].ctrl_in_num)
    /\ \A j \in 1..(k - 1) : Unwrap(ctrls[k].ctrl_in_num) \notin InNums(ctrls[j])

\* C21: for an OnOff control in Toggle mode every hardware press event
\* (value != 0) negates the stored state and is answered with the full
\* response for the new state; after any sequence of hardware events on its
\* input number from the initial off state the stored state is true exactly
\* when the number of press events so far is odd, with or without releases
\* between the presses.
C21_ToggleParity ==
    /\ [][\A k \in Idx :
            (/\ last'.ev.type = "ctrl" /\ last'.by = k /\ last'.ev.val # 0
             /\ ctrls[k].logic = "OnOff" /\ ctrls[k].mode = "Toggle") =>
                /\ ctrls'[k].state = ~ctrls[k].state
                /\ EmitsFor(ctrls[k], Unwrap(last'.ret), ctrls'[k].state)
        ]_vars
    /\ [](\A k \in Idx :
            (IsReachedToggle(k) /\ hist = {Unwrap(ctrls[k].ctrl_in_num)}) =>
                (ctrls[k].state <=> presses = 1))

\* C21 witness: in a run of hardware events only, a toggle control has just
\* answered a press by switching off again (an even number of presses, at
\* least two).
C21_Witness ==
    \E k \in Idx :
        /\ IsReachedToggle(k) /\ hist = {Unwrap(ctrls[k].ctrl_in_num)}
        /\ last.ev.type = "ctrl" /\ last.by = k /\ last.ev.val # 0
        /\ ctrls[k].state = FALSE
        /\ presses = 0
        /\ NonEmpty(last.ret)

\* the parts of an OnOff emission for state s as the specification encodes them
SpecOsc(c, s) == Some(OscResponse(c.osc_addr, <<Float(IF s THEN 1 ELSE 0, 1)>>))
SpecFeedback(c, s) == Some(<<Unwrap(c.ctrl_out_num), IF s THEN 127 ELSE 0>>)
SpecMidi(c, s) ==
    LET m == Unwrap(c.midi) IN
    IF m.kind = "Cc" THEN Some(<<176 + m.channel, m.num, IF s THEN 127 ELSE 0>>)
    ELSE IF s THEN Some(<<144 + m.channel, m.num, 127>>)
    ELSE Some(<<128 + m.channel, m.num, 0>>)

\* C22: when an OnOff control emits for state s (a non-empty answer to a
\* hardware, OSC or MIDI event; s is pressed in Raw mode and the new stored
\* state otherwise), an OSC part has the single argument 1.0 if s else 0.0, a
\* hardware-feedback part is [output number, 0x7F if s else 0x00] and is
\* present only if an output number is configured, a MIDI part is
\* [0xB0 | channel, number, 0x7F if s else 0x00] for kind Cc and, for kind
\* NoteOnOff, [0x90 | channel, number, 0x7F] if s and
\* [0x80 | channel, number, 0x00] otherwise.  An emitting hardware event
\* carries the OSC part and, if bound, the MIDI part, and outside Raw mode
\* the hardware-feedback part exactly if an output number is configured.
C22_OnOffEncodings ==
    [][\A k \in Idx :
          (/\ last'.by = k /\ ctrls[k].logic = "OnOff" /\ NonEmpty(last'.ret)) =>
              LET c == ctrls[k]
                  r == Unwrap(last'.ret)
                  s == IF last'.ev.type = "ctrl" /\ c.mode = "Raw"
                       THEN last'.ev.val # 0 ELSE ctrls'[k].state
              IN  /\ IsSome(r.osc) => r.osc = SpecOsc(c, s)
                  /\ IsSome(r.ctrl) => IsSome(c.ctrl_out_num) /\ r.ctrl = SpecFeedback(c, s)
                  /\ IsSome(r.midi) => IsSome(c.midi) /\ r.midi = SpecMidi(c, s)
                  /\ last'.ev.type = "ctrl" =>
                        /\ IsSome(r.osc)
                        /\ IsSome(r.midi) <=> IsSome(c.midi)
                        /\ c.mode # "Raw" => (IsSome(r.ctrl) <=> IsSome(c.ctrl_out_num))
      ]_vars

\* C22 witness: a control bound to notes, with an output number, has been
\* switched off by a hardware event and answered with OSC 0.0, the feedback
\* [output number, 0x00] and a Note-Off of velocity 0.
C22_Witness ==
    \E k \in Idx :
        /\ ctrls[k].logic = "OnOff" /\ ctrls[k].mode # "Raw"
        /\ IsSome(ctrls[k].midi) /\ Unwrap(ctrls[k].midi).kind = "NoteOnOff"
        /\ last.ev.type = "ctrl" /\ last.by = k
        /\ ctrls[k].state = FALSE
        /\ NonEmpty(last.ret)
        /\ Unwrap(last.ret).osc = SpecOsc(ctrls[k], FALSE)
        /\ Unwrap(last.ret).ctrl = Some(<<Unwrap(ctrls[k].ctrl_out_num), 0>>)
        /\ Unwrap(last.ret).midi = Some(<<128 + Unwrap(ctrls[k].midi).channel, Unwrap(ctrls[k].midi).num, 0>>)

\* no instance before instance k answers the event: the engine hands it to k
ReachesInstance(k, ev) == \A j \in 1..(k - 1) : Dispatch(ctrls[j], ev).ret = None

\* an OnOff instance bound to notes
IsNoteBound(c) == c.logic = "OnOff" /\ IsSome(c.midi) /\ Unwrap(c.midi).kind = "NoteOnOff"

\* a 3-byte Note-On or Note-Off on the channel and note number of the binding
IsNoteFor(c, msg) ==
    /\ Len(msg) = 3
    /\ msg[1] \in {144 + Unwrap(c.midi).channel, 128 + Unwrap(c.midi).channel}
    /\ msg[2] = Unwrap(c.midi).num

\* "on" as the specification decodes a note message
NoteIsOn(c, msg) == msg[1] = 144 + Unwrap(c.midi).channel /\ msg[3] > 0

\* C23 (as amended): for an OnOff control bound to MIDI kind NoteOnOff that
\* has an output number, an inbound 3-byte message on the configured channel
\* and note number sets the stored state to on if and only if its status is
\* Note-On and its velocity is greater than 0; any Note-Off, and a Note-On
\* with velocity 0, sets it to off; messages with any other status, channel
\* or number are declined.  A control without an output number declines
\* every MIDI message and keeps its state.
C23_NoteDecoding ==
    [][\A k \in Idx :
          (/\ last'.ev.type = "midi" /\ Len(last'.ev.msg) = 3
           /\ IsNoteBound(ctrls[k]) /\ ReachesInstance(k, last'.ev)) =>
              LET c == ctrls[k]
                  msg == last'.ev.msg
              IN  IF IsNoteFor(c, msg) /\ IsSome(c.ctrl_out_num)
                  THEN /\ last'.by = k
                       /\ ctrls'[k].state = NoteIsOn(c, msg)
                  ELSE /\ last'.by # k
                       /\ ctrls'[k] = c
      ]_vars

\* C23 witness: a control bound to notes that was on has just been switched
\* off by a Note-On with velocity 0.
C23_Witness ==
    \E k \in Idx :
        /\ IsNoteBound(ctrls[k])
        /\ last.ev.type = "midi" /\ last.by = k
        /\ last.ev.msg = <<144 + Unwrap(ctrls[k].midi).channel, Unwrap(ctrls[k].midi).num, 0>>
        /\ ctrls[k].state = FALSE
        /\ Unwrap(last.ret).ctrl = Some(<<Unwrap(ctrls[k].ctrl_out_num), 0>>)

\* C23 (as claimed): for an OnOff control bound to MIDI kind NoteOnOff, with
\* or without an output number, an inbound 3-byte message on the configured
\* channel and note number sets the stored state to on if and only if its
\* status is Note-On and its velocity is greater than 0, and to off
\* otherwise; messages with any other status, channel or number are declined.
C23_NoteDecodingAnyControl ==
    [][\A k \in Idx :
          (/\ last'.ev.type = "midi" /\ Len(last'.ev.msg) = 3
           /\ IsNoteBound(ctrls[k]) /\ ReachesInstance(k, last'.ev)) =>
              LET c == ctrls[k]
                  msg == last'.ev.msg
              IN  IF IsNoteFor(c, msg)
                  THEN /\ last'.by = k
                       /\ ctrls'[k].state = NoteIsOn(c, msg)
                  ELSE /\ last'.by # k
                       /\ ctrls'[k] = c
      ]_vars

\* an OSC message to the control's address with a float argument, or a 3-byte
\* MIDI message of the channel, kind and number of the control's binding
MatchesOnOff(c, ev) ==
    \/ /\ ev.type = "osc" /\ ev.addr = c.osc_addr
       /\ Len(ev.args) >= 1 /\ ev.args[1].type = "Float"
    \/ /\ ev.type = "midi" /\ Len(ev.msg) = 3 /\ IsSome(c.midi)
       /\ IF Unwrap(c.midi).kind = "Cc"
          THEN ev.msg[1] = 176 + Unwrap(c.midi).channel /\ ev.msg[2] = Unwrap(c.midi).num
          ELSE IsNoteFor(c, ev.msg)

\* the on/off value of a matching message
OnOffValue(c, ev) ==
    IF ev.type = "osc" THEN ev.args[1].num # 0
    ELSE IF Unwrap(c.midi).kind = "Cc" THEN ev.msg[3] > 0
    ELSE NoteIsOn(c, ev.msg)

\* C24 (as amended): for every OnOff control with an output number, an
\* inbound OSC message matching its address, or an inbound MIDI message
\* matching its configured channel, kind and number, updates the stored
\* state to the message's on/off value and yields a response with only the
\* hardware-feedback part, which is [output number, 0x7F or 0x00] if the
\* state changed and absent if it did not.  A control without an output
\* number declines the message and keeps its state.
C24_InboundUpdatesWithOutput ==
    [][\A k \in Idx :
          (/\ ctrls[k].logic = "OnOff"
           /\ MatchesOnOff(ctrls[k], last'.ev) /\ ReachesInstance(k, last'.ev)) =>
              LET c == ctrls[k]
                  v == OnOffValue(c, last'.ev)
              IN  IF IsSome(c.ctrl_out_num)
                  THEN /\ last'.by = k
                       /\ ctrls'[k].state = v
                       /\ Unwrap(last'.ret).osc = None
                       /\ Unwrap(last'.ret).midi = None
                       /\ Unwrap(last'.ret).ctrl =
                              (IF v # c.state THEN SpecFeedback(c, v) ELSE None)
                  ELSE /\ last'.by # k
                       /\ ctrls'[k] = c
      ]_vars

\* C24 witness: a control with an output number that was on has been switched
\* off by an OSC message with argument 0.0 and answered with the feedback
\* [output number, 0x00] alone.
C24_Witness ==
    \E k \in Idx :
        /\ ctrls[k].logic = "OnOff" /\ IsSome(ctrls[k].ctrl_out_num)
        /\ last.ev.type = "osc" /\ last.by = k
        /\ MatchesOnOff(ctrls[k], last.ev) /\ ~OnOffValue(ctrls[k], last.ev)
        /\ ctrls[k].state = FALSE
        /\ last.ret = Some([Response_new EXCEPT !.ctrl = SpecFeedback(ctrls[k], FALSE)])

\* C24 (as claimed): for every OnOff control, whether or not an output number
\* is configured, an inbound OSC message matching its address, or an inbound
\* MIDI message matching its configured channel, kind and number, updates
\* the stored state to the message's on/off value and yields a response
\* with only the hardware-feedback part.
C24_InboundUpdatesAlways ==
    [][\A k \in Idx :
          (/\ ctrls[k].logic = "OnOff"
           /\ MatchesOnOff(ctrls[k], last'.ev) /\ ReachesInstance(k, last'.ev)) =>
              /\ last'.by = k
              /\ ctrls'[k].state = OnOffValue(ctrls[k], last'.ev)
              /\ Unwrap(last'.ret).osc = None
              /\ Unwrap(last'.ret).midi = None
      ]_vars

\* C25: for a Relative control in Raw mode, every hardware event on its input
\* number is answered with an OSC message carrying the signed delta (value
\* if value < 0x40, else value - 128) and nothing else: no MIDI part, no
\* hardware-feedback part, and the stored state is left unchanged.
C25_RelativeRawDelta ==
    [][\A k \in Idx :
          (/\ last'.ev.type = "ctrl"
           /\ ctrls[k].logic = "Relative" /\ ctrls[k].mode = "Raw"
           /\ last'.ev.num \in InNums(ctrls[k]) /\ ReachesInstance(k, last'.ev)) =>
              LET c == ctrls[k]
                  val == last'.ev.val
                  r == Unwrap(last'.ret)
              IN  /\ last'.by = k
                  /\ IsSome(r.osc)
                  /\ Unwrap(r.osc).addr = c.osc_addr
                  /\ Len(Unwrap(r.osc).args) = 1
                  /\ Unwrap(r.osc).args[1].type = "Float"
                  /\ FloatEq(Unwrap(r.osc).args[1],
                             Float(IF val < 64 THEN val ELSE val - 128, 1))
                  /\ r.midi = None
                  /\ r.ctrl = None
                  /\ ctrls'[k] = c
      ]_vars

\* C25 witness: a Raw encoder with a MIDI binding and an output number, whose
\* stored state an inbound message has set to 127, has answered the byte
\* 0x7F with the OSC value -1 alone and kept its state.
C25_Witness ==
    \E k \in Idx :
        /\ ctrls[k].logic = "Relative" /\ ctrls[k].mode = "Raw"
        /\ IsSome(ctrls[k].midi) /\ IsSome(ctrls[k].ctrl_out_num)
        /\ last.ev.type = "ctrl" /\ last.by = k /\ last.ev.val = 127
        /\ ctrls[k].state = 127
        /\ last.ret = Some([Response_new EXCEPT
                               !.osc = Some(OscResponse(ctrls[k].osc_addr, <<Float(-1, 1)>>))])

\* C26: for a Relative control in Accumulate mode, a hardware event whose
\* clamped new state clamp(stored + delta, 0, 127) equals the stored state is
\* answered with an empty response; otherwise the stored state becomes the
\* new state, the OSC part carries new_state/127 and, for MIDI kind Cc, the
\* MIDI part is the Control-Change [0xB0 | channel, number, new_state].
C26_AccumulateEmits ==
    [][\A k \in Idx :
          (/\ last'.ev.type = "ctrl" /\ last'.by = k
           /\ ctrls[k].logic = "Relative" /\ ctrls[k].mode = "Accumulate") =>
              LET c == ctrls[k]
                  new == Clamp7(c.state + SpecDelta(last'.ev.val))
                  r == Unwrap(last'.ret)
              IN  IF new = c.state
                  THEN IsEmpty(r) /\ ctrls'[k] = c
                  ELSE /\ ctrls'[k].state = new
                       /\ IsSome(r.osc)
                       /\ Unwrap(r.osc).addr = c.osc_addr
                       /\ Len(Unwrap(r.osc).args) = 1
                       /\ Unwrap(r.osc).args[1].type = "Float"
                       /\ FloatEq(Unwrap(r.osc).args[1], Float(new, 127))
                       /\ (IsSome(c.midi) /\ Unwrap(c.midi).kind = "Cc") =>
                             r.midi = Some(<<176 + Unwrap(c.midi).channel, Unwrap(c.midi).num, new>>)
      ]_vars

\* C26 witness: an accumulating encoder bound to a controller has stepped
\* from 127 down to 126 and answered with the OSC value 126/127 and the
\* Control-Change value 126.
C26_Witness ==
    \E k \in Idx :
        /\ ctrls[k].logic = "Relative" /\ ctrls[k].mode = "Accumulate"
        /\ IsSome(ctrls[k].midi) /\ Unwrap(ctrls[k].midi).kind = "Cc"
        /\ last.ev.type = "ctrl" /\ last.by = k /\ last.ev.val = 127
        /\ ctrls[k].state = 126
        /\ FloatEq(Unwrap(Unwrap(last.ret).osc).args[1], Float(126, 127))
        /\ Unwrap(Unwrap(last.ret).midi)[3] = 126

\* round(clamp(v, 0, 1) * 127) for a float v = num/den, den > 0
SpecRound7(v) ==
    LET c == IF v.num < 0 THEN Float(0, 1) ELSE IF v.num > v.den THEN Float(1, 1) ELSE v
        whole == (127 * c.num) \div c.den
    IN  IF 2 * (127 * c.num - whole * c.den) >= c.den THEN whole + 1 ELSE whole

\* an OSC message to the control's address with a float argument, or a 3-byte
\* Control-Change on the channel and number of the control's binding
MatchesRelative(c, ev) ==
    \/ /\ ev.type = "osc" /\ ev.addr = c.osc_addr
       /\ Len(ev.args) >= 1 /\ ev.args[1].type = "Float"
    \/ /\ ev.type = "midi" /\ Len(ev.msg) = 3 /\ IsSome(c.midi)
       /\ ev.msg[1] = 176 + Unwrap(c.midi).channel /\ ev.msg[2] = Unwrap(c.midi).num

\* the value a matching message carries
RelativeValue(ev) == IF ev.type = "osc" THEN SpecRound7(ev.args[1]) ELSE ev.msg[3]

\* the engine has just declined a truncated MIDI message.  Every instance
\* declines it and keeps its state, so every reachable control state occurs
\* in such a state as well.
AtRest == last.ev.type = "midi" /\ Len(last.ev.msg) # 3 /\ last.by = 0

C28_EightBitOneWay ==
    [][\A k \in Idx : ctrls[k].logic = "EightBit" =>
          /\ (last'.ev.type = "ctrl" /\ last'.by = k) => Unwrap(last'.ret).ctrl = None
          /\ last'.ev.type \in {"osc", "midi"} =>
                /\ last'.by # k
                /\ ctrls'[k] = ctrls[k]
      ]_vars

\* C28 witness: an EightBit control holding the pair [0x40, 0x01] was sent an
\* OSC message with a float argument to its own address; nothing answered.
C28_Witness ==
    \E k \in Idx :
        /\ ctrls[k].logic = "EightBit"
        /\ ctrls[k].state = <<64, 1>>
        /\ last.ev.type = "osc" /\ last.ev.addr = ctrls[k].osc_addr
        /\ last.ev.args = <<Float(1, 2)>>
        /\ last.by = 0 /\ last.ret = None

\* an EightBit or Relative instance whose MIDI binding has kind NoteOnOff
IsNoteBoundValue(c) ==
    /\ c.logic \in {"EightBit", "Relative"}
    /\ IsSome(c.midi) /\ Unwrap(c.midi).kind = "NoteOnOff"

\* the same instance with its binding changed to kind Cc
AsCc(c) == [c EXCEPT !.midi = Some([Unwrap(c.midi) EXCEPT !.kind = "Cc"])]

\* C29: for an EightBit or Relative control whose MIDI binding has kind
\* NoteOnOff, an emitting event (one answered with a non-empty response)
\* yields no MIDI message at all: the MIDI part is absent, not an empty
\* message.  The OSC part and, for Relative, the hardware-feedback part and
\* the stored state are those the same control bound to kind Cc produces,
\* which for a hardware event comes with a MIDI message.
C29_NoteKindNoMidi ==
    [][\A k \in Idx :
          (/\ last'.by = k /\ IsNoteBoundValue(ctrls[k]) /\ NonEmpty(last'.ret)) =>
              LET r == Unwrap(last'.ret)
                  cc == Dispatch(AsCc(ctrls[k]), last'.ev)
              IN  /\ r.midi = None
                  /\ IsSome(cc.ret)
                  /\ r.osc = Unwrap(cc.ret).osc
                  /\ r.ctrl = Unwrap(cc.ret).ctrl
                  /\ ctrls'[k].state = cc.self.state
                  /\ last'.ev.type = "ctrl" =>
                        /\ IsSome(r.osc)
                        /\ IsSome(Unwrap(cc.ret).midi)
      ]_vars

\* C29 witness: an accumulating encoder bound to notes has stepped from 6 to
\* 7 and answered with the OSC value 7/127 and the feedback value 7, without
\* a MIDI part.
C29_Witness ==
    \E k \in Idx :
        /\ IsNoteBoundValue(ctrls[k]) /\ ctrls[k].logic = "Relative"
        /\ last.ev.type = "ctrl" /\ last.by = k /\ last.ev.val = 1
        /\ ctrls[k].state = 7
        /\ last.ret = Some([osc  |-> Some(OscResponse(ctrls[k].osc_addr, <<Float(7, 127)>>)),
                            ctrl |-> Some(<<Unwrap(ctrls[k].ctrl_out_num), 7>>),
                            midi |-> None])

\* a mapping some constructor accepts, as the specification has it: every
\* OnOff and Relative mapping, and an EightBit mapping with at least two
\* input-sequence numbers
SpecAccepted(m) ==
    \/ m.ctrl_kind.tag \in {"OnOff", "Relative"}
    \/ /\ m.ctrl_kind.tag = "EightBit"
       /\ IsSome(m.ctrl_in_sequence) /\ Len(Unwrap(m.ctrl_in_sequence)) >= 2

\* the control kind and OSC address of the instance of each accepted mapping
\* among the first n, in mapping order
RECURSIVE SpecInstances(_, _)
SpecInstances(ms, n) ==
    IF n = 0 THEN <<>>
    ELSE SpecInstances(ms, n - 1)
         \o (IF SpecAccepted(ms[n])
             THEN << <<ms[n].ctrl_kind.tag, <<"/">> \o ms[n].name>> >>
             ELSE <<>>)

\* C30: engine construction creates at most one control instance per concrete
\* mapping, kept in mapping expansion order and chosen by control kind (an
\* OnOff mapping yields an OnOff instance, whatever else it configures, and
\* so on); a mapping accepted by no constructor, which includes an EightBit
\* mapping without at least two input-sequence numbers, creates no
\* instance, and construction continues with the remaining mappings until
\* all are consumed.
C30_OneInstancePerMapping ==
    /\ [](/\ new_i \in 0..Len(new_config)
          /\ Len(ctrls) <= new_i
          /\ [k \in 1..Len(ctrls) |-> <<ctrls[k].logic, ctrls[k].osc_addr>>]
                = SpecInstances(new_config, new_i)
          /\ new_i < Len(new_config) => ENABLED NewIter
          /\ new_i = Len(new_config) => ctrls = Interpreter_new(new_config))
    /\ [][/\ new_i' = new_i + 1
          /\ Len(ctrls') \in {Len(ctrls), Len(ctrls) + 1}
          /\ \A k \in 1..Len(ctrls) : ctrls'[k] = ctrls[k]
          /\ Len(ctrls') = Len(ctrls) <=> ~SpecAccepted(new_config[new_i'])
       ]_vars

\* C30 witness: construction is complete for a configuration of three
\* mappings; the first, an EightBit mapping with a single input-sequence
\* number, created no instance, the two after it created an EightBit and a
\* Relative instance.
C30_Witness ==
    /\ Len(new_config) = 3 /\ new_i = 3
    /\ new_config[1].ctrl_kind.tag = "EightBit"
    /\ new_config[1].ctrl_in_sequence = Some(<<1>>)
    /\ Len(ctrls) = 2
    /\ ctrls[1].logic = "EightBit" /\ ctrls[2].logic = "Relative"

\* the last element of a non-empty sequence
Last(q) == q[Len(q)]

\* the OSC messages of the pairs that have a mapping, in order
RECURSIVE PairMsgs(_, _)
PairMsgs(ms, pairs) ==
    IF pairs = <<>> THEN <<>>
    ELSE LET data == match_ctrl(ms, Head(pairs)[1], Head(pairs)[2])
         IN  (IF ~data.panic /\ IsSome(data.val) THEN <<Unwrap(data.val)>> ELSE <<>>)
             \o PairMsgs(ms, Tail(pairs))

\* C31: a timeout of the hardware interrupt read is not an error: the read
\* that timed out sends nothing and leaves the reader in its loop, where the
\* next read can be made; and a read that returns bytes after any number of
\* timeouts is processed, its mapped pairs being sent as OSC messages in
\* order (unless the processing itself panics).
C31_TimeoutRetried ==
    /\ [](TimedOut(reads) =>
            /\ reader_pc = "loop"
            /\ nreads < MaxReads => ENABLED ReaderRead)
    /\ [][/\ (nreads' # nreads /\ TimedOut(reads')) => osc_out' = osc_out
          /\ (nreads' # nreads /\ TimedOut(reads) /\ Last(reads').ok /\ reader_pc' = "loop") =>
                osc_out' = osc_out \o PairMsgs(config,
                               ParseFrames(Last(reads').bytes, Len(Last(reads').bytes), 0))
         ]_vars

\* C31 witness: the reads before the latest one timed out, the latest
\* returned a button press and the press was sent as an OSC message.
C31_Witness ==
    /\ Len(reads) >= 2
    /\ TimedOut(SubSeq(reads, 1, Len(reads) - 1))
    /\ Last(reads) = ReadOk(<<SENTINEL, 1, 127>>)
    /\ osc_out # <<>>
    /\ Last(osc_out) = [addr |-> <<"/", "b", "0">>, args |-> <<Float(1, 1)>>]
    /\ reader_pc = "loop"

\* a read failed, and not by a timeout
ReadFailed(rs) == rs # <<>> /\ ~Last(rs).ok /\ Last(rs).err # "timeout"

\* C32: a device read failure other than a timeout ends the hardware reader:
\* after it the reader is no longer in its loop and makes no further read.
C32_ReadFailureFatal ==
    /\ [](ReadFailed(reads) => reader_pc # "loop")
    /\ [][ReadFailed(reads) => nreads' = nreads]_vars

\* C33: for a Relative control with an output number, the value of the latest
\* hardware feedback it emitted is segment(stored state), and while it has
\* emitted none segment(stored state) is 0, after any sequence of hardware,
\* OSC and MIDI events.
C33_RelativeLedNeverStale ==
    \A k \in Idx :
        (ctrls[k].logic = "Relative" /\ IsSome(ctrls[k].ctrl_out_num)) =>
            IF IsSome(fb[k]) THEN Unwrap(fb[k]) = Segment(ctrls[k].state)
            ELSE Segment(ctrls[k].state) = 0

\* C33 witness: an encoder with LED ring whose latest feedback is a segment
\* above 0 has just been moved by an OSC event within that segment, without
\* feedback.
C33_Witness ==
    \E k \in Idx :
        /\ ctrls[k].logic = "Relative" /\ IsSome(ctrls[k].ctrl_out_num)
        /\ last.by = k /\ last.ev.type = "osc"
        /\ Unwrap(last.ret).ctrl = None
        /\ IsSome(fb[k]) /\ Unwrap(fb[k]) > 0
        /\ ctrls[k].state # Unwrap(fb[k])

\* C34: for an OnOff control with an output number, in every mode, the
\* latest hardware feedback value it emitted is 0x7F exactly when the stored
\* state is true, and while it has emitted none the stored state is false,
\* after any sequence of hardware, OSC and MIDI events.
C34_OnOffLedNeverStale ==
    \A k \in Idx :
        (ctrls[k].logic = "OnOff" /\ IsSome(ctrls[k].ctrl_out_num)) =>
            IF IsSome(fb[k]) THEN (Unwrap(fb[k]) = 127 <=> ctrls[k].state)
            ELSE ~ctrls[k].state

\* C34 witness: a button with LED has been switched on and is switched off
\* again by the last event, the latest feedback value being 0.
C34_Witness ==
    \E k \in Idx :
        /\ ctrls[k].logic = "OnOff" /\ IsSome(ctrls[k].ctrl_out_num)
        /\ last.by = k /\ last.ev.type \in {"osc", "midi"}
        /\ fb[k] = Some(0) /\ ~ctrls[k].state

\* the values an LED ring can show
SegmentSet == {0, 7, 18, 29, 40, 51, 62, 73, 84, 95, 106, 117}

\* C35 (as claimed): every hardware-feedback message emitted by a Relative
\* control carries a value of the segment set {0, 7, 18, ..., 117}, which is
\* at most 127 and at most the stored state, after any sequence of hardware,
\* OSC and MIDI events.
C35_FeedbackInSegmentSet ==
    \A k \in Idx :
        (last.by = k /\ ctrls[k].logic = "Relative" /\ IsSome(Unwrap(last.ret).ctrl)) =>
            LET v == Unwrap(Unwrap(last.ret).ctrl)[2]
            IN  /\ v \in SegmentSet
                /\ v <= 127
                /\ v <= ctrls[k].state

\* a response without MIDI part, or with a MIDI part of three bytes whose
\* third byte is a 7-bit value
MidiSevenBit(ret) ==
    (IsSome(ret) /\ IsSome(Unwrap(ret).midi)) =>
        LET m == Unwrap(Unwrap(ret).midi)
        IN  Len(m) = 3 /\ m[3] \in 0..127

\* C36: every MIDI message emitted by a control is three bytes long with a
\* third byte of at most 0x7F: so is the MIDI part of every response the
\* engine has returned; so is, on every reachable control state (each taken
\* once, where the engine is at rest), the answer of every instance to a
\* hardware event on one of its input numbers with any byte 0..255; and so
\* is the answer of a freshly constructed EightBit control to any hi byte
\* followed by any lo byte.
C36_MidiSevenBit ==
    /\ MidiSevenBit(last.ret)
    /\ AtRest =>
          \A k \in Idx : \A n \in InNums(ctrls[k]) : \A v \in 0..255 :
              MidiSevenBit(Dispatch(ctrls[k], CtrlEv(n, v)).ret)
    /\ last = NoLast =>
          \A k \in Idx : ctrls[k].logic = "EightBit" =>
              \A hi \in 0..255 : \A lo \in 0..255 :
                  LET c == EightBit_handle_ctrl(ctrls[k], ctrls[k].ctrl_in_hi_num, hi).self
                      r == EightBit_handle_ctrl(c, c.ctrl_in_lo_num, lo)
                  IN  MidiSevenBit(r.ret)

\* C36 witness: a crossfader bound to a controller has sent the value 127
\* for the hi byte 255.
C36_Witness ==
    \E k \in Idx :
        /\ ctrls[k].logic = "EightBit"
        /\ last.by = k /\ last.ev.type = "ctrl" /\ last.ev.num = ctrls[k].ctrl_in_lo_num
        /\ ctrls[k].state[1] = 255
        /\ IsSome(Unwrap(last.ret).midi)
        /\ Unwrap(Unwrap(last.ret).midi)[3] = 127

\* every present range (lo, hi) of the numbering has lo <= hi and at most
\* 255 numbers
ProperRanges(n) ==
    \A j \in 1..Len(PresentRanges(n)) :
        LET r == PresentRanges(n)[j]
        IN  r[1] <= r[2] /\ r[2] - r[1] + 1 <= 255

\* at least one range is present and every present range has the size k
AllOfSize(n, k) ==
    /\ PresentRanges(n) # <<>>
    /\ \A j \in 1..Len(PresentRanges(n)) :
          PresentRanges(n)[j][2] - PresentRanges(n)[j][1] + 1 = k

\* C37: for a Range whose present ranges (lo, hi) have lo <= hi, in either
\* build, num_alternatives returns n exactly when at least one of the input,
\* output and MIDI ranges is present and every present range has the same
\* size n = hi - lo + 1; when no range is present or two present ranges
\* differ in size it returns none, and expand_iter then aborts without
\* yielding any concrete mapping.
C37_SizeOnlyIfUnambiguous ==
    (expanded.done /\ mapping.numbering.tag = "Range" /\ ProperRanges(mapping.numbering)) =>
        LET n == mapping.numbering
            na == num_alternatives(n, build)
        IN  /\ ~na.panic
            /\ \A k \in 0..255 : na.val = Some(k) <=> AllOfSize(n, k)
            /\ (~\E k \in 1..255 : AllOfSize(n, k)) =>
                  /\ na.val = None
                  /\ expanded.panic
                  /\ expanded.mappings = <<>>

\* C37 witness: a Range with an input range of one number and an output
\* range of two numbers has been expanded, and the expansion aborted.
C37_Witness ==
    /\ expanded.done /\ expanded.panic
    /\ mapping.numbering.tag = "Range"
    /\ mapping.numbering.ctrl_in = Some(<<3, 3>>)
    /\ mapping.numbering.ctrl_out = Some(<<20, 21>>)
    /\ mapping.numbering.midi = None

\* C38: the frame-parsing loop terminates for every buffer content and every
\* read length 0..8: every iteration moves the index forward; the bytes an
\* iteration reads lie below the new index, which never exceeds the number
\* of bytes read; the loop is left in the end; and when it is left the
\* delivered pairs are made of the bytes below the final index only, so a
\* last byte left without a partner is not delivered.
C38_FrameLoopTerminates ==
    /\ [][(frame_pc = "loop" /\ frame_pc' = "loop") =>
            /\ frame_i' > frame_i
            /\ frame_i' <= num_bytes
            /\ Len(delivered') <= Len(delivered) + 1
         ]_vars
    /\ [](frame_i <= num_bytes)
    /\ [](frame_pc = "done" =>
            /\ frame_i \in {num_bytes - 1, num_bytes}
            /\ \E R \in SentinelSets : Flatten(delivered) = Without(all_bytes, frame_i, R, 1))
    /\ <>(frame_pc = "done")

\* C38 witness: a read of eight bytes that starts with a sentinel has been
\* parsed into three pairs, the loop is left and the eighth byte is left
\* over.
C38_Witness ==
    /\ frame_pc = "done"
    /\ num_bytes = BUF_SIZE
    /\ all_bytes[1] = SENTINEL
    /\ frame_i = num_bytes - 1
    /\ Len(delivered) = 3
    /\ all_bytes[num_bytes] # SENTINEL
====
